---- MODULE Spec2Model ----
(***************************************************************************)
(* Model of the ConsoleSensei-Cloud backend core:                          *)
(*   - AWSResourceScanner.scan: region fan-out over a bounded thread pool,  *)
(*     result collection, global scanners, summaries                       *)
(*     (src/backend/aws_resource_scanner.py)                               *)
(*   - AWSSessionManager.get_client: the lock-checked client cache          *)
(*   - ResourceActionValidator / ResourceActionExecutor                     *)
(*     (src/backend/resource_manager.py)                                   *)
(*   - perform_bulk_action (src/backend/api.py)                            *)
(***************************************************************************)
EXTENDS Integers, Sequences, FiniteSets, Bags, TLC

VARIABLES
    \* ---- AWSResourceScanner.scan ----
    phase,          \* position of the coordinating thread inside scan()
    max_workers,    \* the pool size the caller passed
    provider,       \* failure injected per scan task (fixed for one scan)
    discovery,      \* what describe_regions answers
    regions,        \* local `regions` of scan()
    futures,        \* local `futures`: the submitted tasks, in submit order
    status,         \* per future: queued / running / finished / collected
    all_resources,  \* local `all_resources`
    errors,         \* self.errors
    scan_result,    \* the ScanResult returned (NoResult until DONE)
    earlier,        \* what earlier scan() calls on this scanner returned
    invoked,        \* the account-global scanner methods called, in order
    account,        \* the provider's resources and their states
    cost_call,      \* one _build_cost_summary call: its argument and result
    \* ---- ResourceActionExecutor ----
    cloud,          \* the resource an action addresses: its kind and state
    last,           \* the executor call just made: request, calls, outcome
    validation,     \* the validator call just made, and the one before it
    \* ---- AWSSessionManager.get_client ----
    clients,        \* self._clients: cache key -> client handle
    lock,           \* self._lock: the thread holding it, or 0
    tpc,            \* per thread: where it is inside get_client
    tkey,           \* per thread: the cache_key of its current call
    tleft,          \* per thread: get_client calls it still has to make
    made,           \* the cache key of every handle constructed, in order
    returned,       \* every <<cache_key, handle>> some call has returned
    session_set,    \* self._session holds a boto3.Session (FALSE: None)
    cleanup_pc,     \* where a cleanup() call running beside the threads is
    \* ---- api.perform_bulk_action ----
    bulk_request,   \* the request body: credentials present?, actions list
    bulk_pc,        \* where the handler is: "start", "loop", "done"
    bulk_results,   \* the handler's local `results`
    bulk_session,   \* the handler's session manager: "none", "open", "closed"
    bulk_response,  \* the (body, status) the handler returned
    bulk_calls,     \* provider calls made so far, each with its entry's index
    \* ---- one AWSSessionManager used by one caller ----
    sm,             \* the object's fields, once __init__ has run
    sm_last         \* the last call on it: arguments, result or exception

scanVars == <<phase, max_workers, provider, discovery, regions, futures,
              status, all_resources, errors, scan_result, earlier, invoked,
              account, cost_call>>

actionVars == <<cloud, last, validation>>

clientVars ==
    <<clients, lock, tpc, tkey, tleft, made, returned, session_set, cleanup_pc>>

bulkVars ==
    <<bulk_request, bulk_pc, bulk_results, bulk_session, bulk_response,
      bulk_calls>>

sessionVars == <<sm, sm_last>>

vars == <<scanVars, actionVars, clientVars, bulkVars, sessionVars>>

----------------------------------------------------------------------------
(* Bounds *)

\* largest pool size tried (scan(max_workers) with 1..MaxWorkers)
MaxWorkers == 2
\* largest number of scan tasks that fail in one provider state
MaxFailures == 1
\* threads calling get_client on one session manager at once
MaxThreads == 2
\* get_client calls each of those threads makes
MaxCalls == 2
\* longest `actions` list of a bulk request
MaxEntries == 2
\* def scan(self, max_workers: int = 5)
DefaultMaxWorkers == 5
\* scan() calls made on one scanner instance
MaxScans == 2
\* longest resource list handed to the cost summary
MaxCosted == 3

----------------------------------------------------------------------------
(* Generic helpers *)

RECURSIVE SumSeq(_)
SumSeq(s) == IF s = <<>> THEN 0 ELSE Head(s) + SumSeq(Tail(s))

RECURSIVE SumFun(_)
SumFun(f) ==
    IF DOMAIN f = {} THEN 0
    ELSE LET k == CHOOSE x \in DOMAIN f : TRUE
         IN  f[k] + SumFun([x \in (DOMAIN f) \ {k} |-> f[x]])

RECURSIVE SeqToBag(_)
SeqToBag(s) ==
    IF s = <<>> THEN EmptyBag ELSE SetToBag({Head(s)}) (+) SeqToBag(Tail(s))

RECURSIVE Flatten(_)
Flatten(ss) == IF ss = <<>> THEN <<>> ELSE Head(ss) \o Flatten(Tail(ss))

Count(s, x) == Cardinality({i \in 1..Len(s) : s[i] = x})

EmptyDict == [k \in {} |-> 0]

\* d[k] = d.get(k, 0) + n
DictAdd(d, k, n) ==
    IF k \in DOMAIN d THEN [d EXCEPT ![k] = @ + n] ELSE d @@ (k :> n)

----------------------------------------------------------------------------
(* The provider: what the account holds and how its calls fail *)

\* region codes the discovery call can list, with their sort rank
RegionRank == ("eu-west-1" :> 1) @@ ("us-east-1" :> 2)
RegionCodes == DOMAIN RegionRank

\* listings describe_regions can answer with
DiscoveryListings == { <<>>, <<"us-east-1">> }

\* a describe_regions answer that names one region code twice; get_regions
\* builds its list from the answer as it comes and only sorts it
RepeatedListing == <<"us-east-1", "us-east-1">>

\* what one describe_regions call does: it answers with a listing, raises
\* botocore ClientError, or raises anything else (a connection failure, a
\* response without the 'Regions' key)
DiscoveryAnswer(l) == [fail |-> "ok", listing |-> l]
DiscoveryFailure(kind) == [fail |-> kind, listing |-> <<>>]

\* the regions some listing names
ListedRegions == UNION { {l[i] : i \in 1..Len(l)} : l \in DiscoveryListings }

\* the eight region-scoped scanner methods, in the order scan() submits them
RegionalMethods ==
    << "EC2Scanner.scan_instances", "EC2Scanner.scan_volumes",
       "EC2Scanner.scan_elastic_ips", "RDSScanner.scan_instances",
       "LambdaScanner.scan_functions", "ELBScanner.scan_load_balancers",
       "CloudWatchLogsScanner.scan_log_groups",
       "NATGatewayScanner.scan_nat_gateways" >>

\* the three account-global scanner methods
GlobalMethods ==
    << "S3Scanner.scan_buckets", "IAMScanner.scan_users", "IAMScanner.scan_roles" >>

\* resource_type each scanner method writes into its records
ResourceType ==
    ("EC2Scanner.scan_instances" :> "EC2_Instance") @@
    ("EC2Scanner.scan_volumes" :> "EBS_Volume") @@
    ("EC2Scanner.scan_elastic_ips" :> "Elastic_IP") @@
    ("RDSScanner.scan_instances" :> "RDS_Instance") @@
    ("LambdaScanner.scan_functions" :> "Lambda_Function") @@
    ("ELBScanner.scan_load_balancers" :> "Load_Balancer") @@
    ("CloudWatchLogsScanner.scan_log_groups" :> "CloudWatch_LogGroup") @@
    ("NATGatewayScanner.scan_nat_gateways" :> "NAT_Gateway") @@
    ("S3Scanner.scan_buckets" :> "S3_Bucket") @@
    ("IAMScanner.scan_users" :> "IAM_User") @@
    ("IAMScanner.scan_roles" :> "IAM_Role")

\* scanner methods that call the provider again while building their list
\* (per-item tag call outside an inner try, or a paginator), so that a
\* ClientError can strike after some records were already built
PartialCapable ==
    { "RDSScanner.scan_instances", "LambdaScanner.scan_functions",
      "CloudWatchLogsScanner.scan_log_groups",
      "IAMScanner.scan_users", "IAMScanner.scan_roles" }

\* The account's inventory: what each listing call returns, as
\* <<provider id, provider state>> items.  Every region holds the same shape
\* of inventory; ids are made region-unique by the scanner's region field.
Inventory ==
    ("EC2Scanner.scan_instances" :> << <<"i-1", "running">> >>) @@
    ("EC2Scanner.scan_volumes" :> <<>>) @@
    ("EC2Scanner.scan_elastic_ips" :> <<>>) @@
    ("RDSScanner.scan_instances" :>
        << <<"db-1", "available">>, <<"db-2", "stopped">> >>) @@
    ("LambdaScanner.scan_functions" :> <<>>) @@
    ("ELBScanner.scan_load_balancers" :> <<>>) @@
    ("CloudWatchLogsScanner.scan_log_groups" :> <<>>) @@
    ("NATGatewayScanner.scan_nat_gateways" :> << <<"nat-1", "available">> >>) @@
    ("S3Scanner.scan_buckets" :> << <<"bucket-1", "us-east-1">> >>) @@
    ("IAMScanner.scan_users" :> << <<"AIDA1", "active">> >>) @@
    ("IAMScanner.scan_roles" :> << <<"AROA1", "active">> >>)

\* an instance scanner that stops the instances it lists
ScannerCallsStopping ==
    ("EC2Scanner.scan_instances" :> <<"describe_instances", "stop_instances">>) @@
    ("EC2Scanner.scan_volumes" :> <<"describe_volumes">>) @@
    ("EC2Scanner.scan_elastic_ips" :> <<"describe_addresses">>) @@
    ("RDSScanner.scan_instances" :>
        <<"describe_db_instances", "list_tags_for_resource">>) @@
    ("LambdaScanner.scan_functions" :> <<"list_functions", "list_tags">>) @@
    ("ELBScanner.scan_load_balancers" :>
        <<"describe_load_balancers", "describe_tags">>) @@
    ("CloudWatchLogsScanner.scan_log_groups" :> <<"describe_log_groups">>) @@
    ("NATGatewayScanner.scan_nat_gateways" :> <<"describe_nat_gateways">>) @@
    ("S3Scanner.scan_buckets" :>
        <<"list_buckets", "get_bucket_location", "get_bucket_tagging",
          "get_metric_statistics">>) @@
    ("IAMScanner.scan_users" :> <<"list_users", "list_user_tags">>) @@
    ("IAMScanner.scan_roles" :> <<"list_roles", "list_role_tags">>)

\* the provider calls each scanner method makes
ScannerCalls ==
    ("EC2Scanner.scan_instances" :> <<"describe_instances">>) @@
    ("EC2Scanner.scan_volumes" :> <<"describe_volumes">>) @@
    ("EC2Scanner.scan_elastic_ips" :> <<"describe_addresses">>) @@
    ("RDSScanner.scan_instances" :>
        <<"describe_db_instances", "list_tags_for_resource">>) @@
    ("LambdaScanner.scan_functions" :> <<"list_functions", "list_tags">>) @@
    ("ELBScanner.scan_load_balancers" :>
        <<"describe_load_balancers", "describe_tags">>) @@
    ("CloudWatchLogsScanner.scan_log_groups" :> <<"describe_log_groups">>) @@
    ("NATGatewayScanner.scan_nat_gateways" :> <<"describe_nat_gateways">>) @@
    ("S3Scanner.scan_buckets" :>
        <<"list_buckets", "get_bucket_location", "get_bucket_tagging",
          "get_metric_statistics">>) @@
    ("IAMScanner.scan_users" :> <<"list_users", "list_user_tags">>) @@
    ("IAMScanner.scan_roles" :> <<"list_roles", "list_role_tags">>)

\* what the provider does to the resource when a mutating call answers
AfterMutation ==
    ("stop_instances" :> "stopping") @@ ("stop_db_instance" :> "stopping") @@
    ("delete_nat_gateway" :> "deleting") @@ ("release_address" :> "missing") @@
    ("delete_volume" :> "missing") @@ ("delete_bucket" :> "missing")

\* the resources a mutating call of the model's account would reach
MutationTargets ==
    ("stop_instances" :> {"i-1"}) @@ ("stop_db_instance" :> {"db-1", "db-2"}) @@
    ("delete_nat_gateway" :> {"nat-1"}) @@ ("release_address" :> {}) @@
    ("delete_volume" :> {}) @@ ("delete_bucket" :> {"bucket-1"})

\* the account before a scan: the state of every resource of the inventory
InitialAccount ==
    ("i-1" :> "running") @@ ("db-1" :> "available") @@ ("db-2" :> "stopped") @@
    ("nat-1" :> "available") @@ ("bucket-1" :> "empty")

\* the account after the provider has served one call: a mutating call moves
\* its targets, every other call leaves the account as it is
ApplyCall(acc, api) ==
    IF api \in DOMAIN AfterMutation
    THEN [r \in DOMAIN acc |->
            IF r \in MutationTargets[api] THEN AfterMutation[api] ELSE acc[r]]
    ELSE acc

RECURSIVE ApplyCalls(_, _)
ApplyCalls(acc, apis) ==
    IF apis = <<>> THEN acc ELSE ApplyCalls(ApplyCall(acc, Head(apis)), Tail(apis))

\* a scan task: one scanner method applied to one region ("global" for the
\* account-global ones)
Task(m, r) == [method |-> m, region |-> r]

AllTaskKeys ==
    { Task(RegionalMethods[i], r) : i \in 1..Len(RegionalMethods), r \in ListedRegions }
    \cup { Task(GlobalMethods[i], "global") : i \in 1..Len(GlobalMethods) }

\* how one task's provider calls go:
\*   ok          every call answers
\*   ClientError botocore ClientError after `at` records were built
\*   Exception   any other exception (connection failure, malformed answer)
Ok == [fail |-> "ok", at |-> 0]

FailuresOf(t) ==
    { [fail |-> "Exception", at |-> 0] }
    \cup { [fail |-> "ClientError", at |-> k] :
             k \in IF t.method \in PartialCapable
                   THEN {0} \cup 0..(Len(Inventory[t.method]) - 1) ELSE {0} }

ProviderStates ==
    UNION { { [t \in AllTaskKeys |-> IF t \in S THEN f[t] ELSE Ok] :
                f \in { g \in [S -> UNION {FailuresOf(t) : t \in S}] :
                          \A t \in S : g[t] \in FailuresOf(t) } } :
            S \in { X \in SUBSET AllTaskKeys : Cardinality(X) <= MaxFailures } }

----------------------------------------------------------------------------
(* Resource scanners *)

\* the resource kinds Config.COST_ESTIMATES has an entry for
COST_ESTIMATES ==
    { "EC2_Instance", "EBS_Volume", "RDS_Instance", "Load_Balancer",
      "NAT_Gateway", "Elastic_IP", "Lambda_Function" }

\* Optional[float] = None: an absent cost is <<>>, a cost c is <<c>>
None == <<>>

\* ResourceMetadata(...) as each scan_* method fills it.  No scanner passes
\* estimated_cost_monthly, so the dataclass default None stands.
MakeRecord(m, r, item) ==
    [ resource_id   |-> item[1],
      resource_type |-> ResourceType[m],
      region        |-> IF m = "S3Scanner.scan_buckets" THEN item[2]
                        ELSE IF m \in {"IAMScanner.scan_users", "IAMScanner.scan_roles"}
                             THEN "global" ELSE r,
      state         |-> IF m \in {"S3Scanner.scan_buckets", "IAMScanner.scan_users",
                                  "IAMScanner.scan_roles"}
                        THEN "active" ELSE item[2],
      estimated_cost_monthly |-> None ]

RecordsOf(m, r, n) == [i \in 1..n |-> MakeRecord(m, r, Inventory[m][i])]

\* str(e) of the exception a task raises
FailureMessage(t) == <<"error in", t.method, t.region>>

\* One scan_* call: `try: ... except ClientError: logger.warning(...)`, then
\* `return resources`.  A ClientError is swallowed and the records built so
\* far are returned; any other exception leaves the method.
RunScanner(t, how) ==
    IF how.fail = "Exception"
    THEN [raised |-> TRUE, records |-> <<>>, message |-> FailureMessage(t)]
    ELSE IF how.fail = "ClientError"
    THEN [raised |-> FALSE, records |-> RecordsOf(t.method, t.region, how.at),
          message |-> <<>>]
    ELSE [raised |-> FALSE,
          records |-> RecordsOf(t.method, t.region, Len(Inventory[t.method])),
          message |-> <<>>]

----------------------------------------------------------------------------
(* AWSSessionManager.get_regions, the part scan() relies on *)

RECURSIVE InsertSorted(_, _)
InsertSorted(s, r) ==
    IF s = <<>> THEN <<r>>
    ELSE IF RegionRank[r] < RegionRank[Head(s)] THEN <<r>> \o s
         ELSE <<Head(s)>> \o InsertSorted(Tail(s), r)

RECURSIVE Sorted(_)
Sorted(s) == IF s = <<>> THEN <<>> ELSE InsertSorted(Sorted(Tail(s)), Head(s))

\* the list get_regions returns from its except ClientError branch
FallbackRegions ==
    << "us-east-1", "us-east-2", "us-west-1", "us-west-2",
       "eu-west-1", "eu-central-1", "ap-southeast-1", "ap-northeast-1" >>

\* get_regions once it holds the ec2 client: what the describe_regions call
\* did decides between sorted(regions), the fallback list, and the exception
\* going on to the caller
get_regions(d) ==
    IF d.fail = "ok" THEN [raised |-> FALSE, regions |-> Sorted(d.listing)]
    ELSE IF d.fail = "ClientError"
    THEN [raised |-> FALSE, regions |-> FallbackRegions]
    ELSE [raised |-> TRUE, regions |-> <<>>]

----------------------------------------------------------------------------
(* Aggregation *)

RECURSIVE build_summary_loop(_, _)
build_summary_loop(rs, acc) ==
    IF rs = <<>> THEN acc
    ELSE LET r == Head(rs)
         IN  build_summary_loop(Tail(rs),
               [ by_type   |-> DictAdd(acc.by_type, r.resource_type, 1),
                 by_region |-> DictAdd(acc.by_region, r.region, 1),
                 by_state  |-> DictAdd(acc.by_state, r.state, 1) ])

\* a summary that overwrites a state's count instead of incrementing it
build_summary_overwrite(resources) ==
    LET c == build_summary_loop(resources,
               [by_type |-> EmptyDict, by_region |-> EmptyDict, by_state |-> EmptyDict])
    IN  [ total_resources |-> Len(resources),
          by_type   |-> c.by_type,
          by_region |-> c.by_region,
          by_state  |-> [k \in DOMAIN c.by_state |-> 1] ]

\* AWSResourceScanner._build_summary
build_summary(resources) ==
    LET c == build_summary_loop(resources,
               [by_type |-> EmptyDict, by_region |-> EmptyDict, by_state |-> EmptyDict])
    IN  [ total_resources |-> Len(resources),
          by_type   |-> c.by_type,
          by_region |-> c.by_region,
          by_state  |-> c.by_state ]

\* `r.estimated_cost_monthly or 0`; costs are whole tenths of a cent
CostOrZero(r) ==
    IF r.estimated_cost_monthly = None THEN 0 ELSE r.estimated_cost_monthly[1]

\* round(x, 2): to whole cents, ties to the even cent
Round2(x) ==
    LET q == x \div 10
        m == x % 10
    IN  IF m < 5 THEN 10 * q
        ELSE IF m > 5 THEN 10 * (q + 1)
        ELSE IF q % 2 = 0 THEN 10 * q ELSE 10 * (q + 1)

RECURSIVE cost_by_type_loop(_, _)
cost_by_type_loop(rs, acc) ==
    IF rs = <<>> THEN acc
    ELSE cost_by_type_loop(Tail(rs),
           DictAdd(acc, Head(rs).resource_type, CostOrZero(Head(rs))))

\* AWSResourceScanner._build_cost_summary
build_cost_summary(resources) ==
    LET by_type == cost_by_type_loop(resources, EmptyDict)
    IN  [ estimated_monthly_total |->
              Round2(SumSeq([i \in 1..Len(resources) |-> CostOrZero(resources[i])])),
          by_resource_type |-> [k \in DOMAIN by_type |-> Round2(by_type[k])] ]

----------------------------------------------------------------------------
(* AWSResourceScanner.scan *)

NoResult == [returned |-> FALSE]

\* no _build_cost_summary call under study
NoCostCall == [resources |-> <<>>, returned |-> FALSE, summary |-> <<>>]

\* a submit loop that leaves out each region's last scanner method
TasksForAllButLast(rs) ==
    Flatten([i \in 1..Len(rs) |->
               [j \in 1..(Len(RegionalMethods) - 1) |->
                  Task(RegionalMethods[j], rs[i])]])

\* `for region in regions:` eight executor.submit calls per region
TasksFor(rs) ==
    Flatten([i \in 1..Len(rs) |->
               [j \in 1..Len(RegionalMethods) |-> Task(RegionalMethods[j], rs[i])]])

Running == {i \in 1..Len(futures) : status[i] = "running"}

\* a pool that starts a worker for every queued task
PoolUnbounded == TRUE

\* ThreadPoolExecutor(max_workers=max_workers): a queued task starts only
\* while fewer than max_workers workers are busy
PoolHasRoom == Cardinality(Running) < max_workers

\* global scanners that do not wait for the pool
PoolNotAwaited == TRUE

\* the as_completed loop has ended and the `with` block has been left:
\* every future has finished and been collected
PoolDrained == \A i \in 1..Len(futures) : status[i] = "collected"

\* the discovery outcomes a scan is run under: every listing and the failure
\* that leaves scan() at once. The ClientError outcome fans out over the
\* eight fallback regions; the session specification covers it.
ScanDiscoveries ==
    { DiscoveryAnswer(l) : l \in DiscoveryListings } \cup
    { DiscoveryFailure("Exception") }

ScanInit ==
    /\ phase = "IDLE"
    /\ max_workers \in 1..MaxWorkers
    /\ provider \in ProviderStates
    /\ discovery \in ScanDiscoveries
    /\ regions = <<>>
    /\ futures = <<>>
    /\ status = <<>>
    /\ all_resources = <<>>
    /\ errors = <<>>
    /\ scan_result = NoResult
    /\ earlier = <<>>
    /\ invoked = <<>>
    /\ account = InitialAccount
    /\ cost_call = NoCostCall

\* regions = self.session_manager.get_regions(); all_resources = []
\* scan() has no handler around the call: what get_regions raises leaves scan
ResolveRegions ==
    /\ phase = "IDLE"
    /\ LET r == get_regions(discovery)
       IN  /\ regions' = r.regions
           /\ phase' = IF r.raised THEN "RAISED" ELSE "REGIONS_RESOLVED"
    /\ all_resources' = <<>>
    /\ UNCHANGED <<max_workers, provider, discovery, futures, status, errors,
                   scan_result>>
    /\ UNCHANGED <<earlier, invoked, account, cost_call>>

\* with ThreadPoolExecutor(max_workers=max_workers): the submit loop
SubmitTasks ==
    /\ phase = "REGIONS_RESOLVED"
    /\ futures' = TasksFor(regions)
    /\ status' = [i \in 1..Len(TasksFor(regions)) |-> "queued"]
    /\ phase' = "FANNED_OUT"
    /\ UNCHANGED <<max_workers, provider, discovery, regions, all_resources,
                   errors, scan_result>>
    /\ UNCHANGED <<earlier, invoked, account, cost_call>>

\* an idle pool worker takes the oldest queued task
StartTask(i) ==
    /\ phase = "FANNED_OUT"
    /\ status[i] = "queued"
    /\ \A j \in 1..(i - 1) : status[j] # "queued"
    /\ PoolHasRoom
    /\ status' = [status EXCEPT ![i] = "running"]
    /\ UNCHANGED <<phase, max_workers, provider, discovery, regions, futures,
                   all_resources, errors, scan_result>>
    /\ UNCHANGED <<earlier, invoked, account, cost_call>>

\* a worker that extends the shared list itself when its method returns
FinishTaskWriting(i) ==
    /\ phase = "FANNED_OUT"
    /\ status[i] = "running"
    /\ status' = [status EXCEPT ![i] = "finished"]
    /\ account' = ApplyCalls(account, ScannerCalls[futures[i].method])
    /\ all_resources' =
         all_resources \o RunScanner(futures[i], provider[futures[i]]).records
    /\ UNCHANGED <<phase, max_workers, provider, discovery, regions, futures,
                   errors, scan_result>>
    /\ UNCHANGED <<earlier, invoked, cost_call>>

\* the scanner method returns or raises inside its worker
FinishTask(i) ==
    /\ phase = "FANNED_OUT"
    /\ status[i] = "running"
    /\ status' = [status EXCEPT ![i] = "finished"]
    /\ account' = ApplyCalls(account, ScannerCalls[futures[i].method])
    /\ UNCHANGED <<phase, max_workers, provider, discovery, regions, futures,
                   all_resources, errors, scan_result>>
    /\ UNCHANGED <<earlier, invoked, cost_call>>

\* a collection step that replaces the list instead of extending it
CollectAssign(all, result) == IF result # <<>> THEN result ELSE all

\* `if result: all_resources.extend(result)`
CollectResult(all, result) == IF result # <<>> THEN all \o result ELSE all

\* self.errors.append({'type': kind, 'message': str(e)})
AppendError(errs, kind, msg) == Append(errs, [type |-> kind, message |-> msg])

\* one turn of `for future in as_completed(futures):`
Collect(i) ==
    /\ phase = "FANNED_OUT"
    /\ status[i] = "finished"
    /\ LET out == RunScanner(futures[i], provider[futures[i]])
       IN  IF out.raised
           THEN /\ errors' = AppendError(errors, "scan_error", out.message)
                /\ UNCHANGED all_resources
           ELSE /\ all_resources' = CollectResult(all_resources, out.records)
                /\ UNCHANGED errors
    /\ status' = [status EXCEPT ![i] = "collected"]
    /\ UNCHANGED <<phase, max_workers, provider, discovery, regions, futures,
                   scan_result>>
    /\ UNCHANGED <<earlier, invoked, account, cost_call>>

GlobalRun(m) == RunScanner(Task(m, "global"), provider[Task(m, "global")])

\* the pool has drained; try: all_resources.extend(s3_scanner.scan_buckets())
ScanS3 ==
    /\ phase = "FANNED_OUT"
    /\ PoolDrained
    /\ LET out == GlobalRun("S3Scanner.scan_buckets")
       IN  IF out.raised
           THEN /\ errors' = AppendError(errors, "S3_scan_error", out.message)
                /\ UNCHANGED all_resources
           ELSE /\ all_resources' = all_resources \o out.records
                /\ UNCHANGED errors
    /\ phase' = "GLOBAL_IAM"
    /\ invoked' = Append(invoked, "S3Scanner.scan_buckets")
    /\ account' = ApplyCalls(account, ScannerCalls["S3Scanner.scan_buckets"])
    /\ UNCHANGED <<max_workers, provider, discovery, regions, futures, status,
                   scan_result>>
    /\ UNCHANGED <<earlier, cost_call>>

\* try: extend(scan_users()); extend(scan_roles()) except Exception: one
\* IAM_scan_error
ScanIAM ==
    /\ phase = "GLOBAL_IAM"
    /\ LET users == GlobalRun("IAMScanner.scan_users")
           roles == GlobalRun("IAMScanner.scan_roles")
       IN  IF users.raised
           THEN /\ errors' = AppendError(errors, "IAM_scan_error", users.message)
                /\ UNCHANGED all_resources
           ELSE IF roles.raised
           THEN /\ errors' = AppendError(errors, "IAM_scan_error", roles.message)
                /\ all_resources' = all_resources \o users.records
           ELSE /\ all_resources' = all_resources \o users.records \o roles.records
                /\ UNCHANGED errors
    /\ LET called == IF GlobalRun("IAMScanner.scan_users").raised
                     THEN <<"IAMScanner.scan_users">>
                     ELSE <<"IAMScanner.scan_users", "IAMScanner.scan_roles">>
       IN  /\ invoked' = invoked \o called
           /\ account' = ApplyCalls(account,
                            Flatten([k \in 1..Len(called) |-> ScannerCalls[called[k]]]))
    /\ phase' = "AGGREGATING"
    /\ UNCHANGED <<max_workers, provider, discovery, regions, futures, status,
                   scan_result>>
    /\ UNCHANGED <<earlier, cost_call>>

\* summary, cost_summary, ScanResult(...); return scan_result
BuildResult ==
    /\ phase = "AGGREGATING"
    /\ scan_result' =
         [ returned        |-> TRUE,
           regions_scanned |-> regions,
           resources       |-> all_resources,
           errors          |-> errors,
           summary         |-> build_summary(all_resources),
           cost_summary    |-> build_cost_summary(all_resources) ]
    /\ phase' = "DONE"
    /\ UNCHANGED <<max_workers, provider, discovery, regions, futures, status,
                   all_resources, errors>>
    /\ UNCHANGED <<earlier, invoked, account, cost_call>>

\* the caller calls scan() again on the same AWSResourceScanner; the
\* provider may have changed meanwhile.  Nothing of the scanner is reset:
\* self.errors is assigned in __init__ only.
NextScan ==
    /\ phase = "DONE"
    /\ Len(earlier) + 1 < MaxScans
    /\ earlier' = Append(earlier, scan_result)
    /\ provider' \in ProviderStates
    /\ discovery' \in ScanDiscoveries
    /\ phase' = "IDLE"
    /\ regions' = <<>>
    /\ futures' = <<>>
    /\ status' = <<>>
    /\ scan_result' = NoResult
    /\ invoked' = <<>>
    /\ UNCHANGED <<max_workers, all_resources, errors, account, cost_call>>

\* ScanResult(errors=self.errors): the result holds the scanner's own list
\* object, not a copy, so what a caller reads from a returned result's
\* errors is the list as it is now
AsReadNow(result) == [result EXCEPT !.errors = errors]

\* resource lists with costs, in tenths of a cent, for _build_cost_summary
CostedKinds == {"EC2_Instance", "RDS_Instance"}
CostValues == {None, <<0>>, <<4>>, <<5>>, <<1234>>}

Costed(kind, c) ==
    [ resource_id |-> "r", resource_type |-> kind, region |-> "us-east-1",
      state |-> "running", estimated_cost_monthly |-> c ]

CostedLists ==
    UNION { [1..n -> {Costed(k, c) : k \in CostedKinds, c \in CostValues}] :
            n \in 0..MaxCosted }

CostInit == cost_call \in { [NoCostCall EXCEPT !.resources = l] : l \in CostedLists }

\* self._build_cost_summary(resources)
CostCall ==
    /\ ~cost_call.returned
    /\ cost_call' = [cost_call EXCEPT !.returned = TRUE,
                        !.summary = build_cost_summary(cost_call.resources)]
    /\ UNCHANGED <<phase, max_workers, provider, discovery, regions, futures,
                   status, all_resources, errors, scan_result, earlier, invoked,
                   account>>

ScanNext ==
    \/ ResolveRegions
    \/ SubmitTasks
    \/ \E i \in 1..Len(futures) : StartTask(i)
    \/ \E i \in 1..Len(futures) : FinishTask(i)
    \/ \E i \in 1..Len(futures) : Collect(i)
    \/ ScanS3
    \/ ScanIAM
    \/ BuildResult

----------------------------------------------------------------------------
(* The provider as the action subsystem sees it *)

\* states a resource of each mapped kind can be in; "missing" is a resource
\* the provider does not know
KindStates ==
    ("EC2_Instance" :> {"pending", "running", "stopping", "stopped",
                        "terminating", "terminated", "missing"}) @@
    ("RDS_Instance" :> {"available", "stopping", "stopped", "missing"}) @@
    ("NAT_Gateway"  :> {"available", "deleting", "deleted", "missing"}) @@
    ("Elastic_IP"   :> {"associated", "unassociated", "missing"}) @@
    ("EBS_Volume"   :> {"available", "in-use", "missing"}) @@
    ("S3_Bucket"    :> {"empty", "nonempty", "missing"})

MappedKinds == DOMAIN KindStates

\* resource_type strings a caller may pass: the mapped ones and two others
RequestKinds == MappedKinds \cup {"Lambda_Function", "IAM_User"}

\* class ActionType(Enum)
ActionTypes == {"stop", "delete", "terminate"}

\* how one provider call goes: it answers, raises botocore ClientError, or
\* raises anything else (connection failure, malformed answer)
Faults == {"ok", "ClientError", "Exception"}

\* the faults injected into one executor call: on the validation read, on
\* the mutating call, on the confirming read
FaultPlans == [read : Faults, mutate : Faults, confirm : Faults]

\* the state a read of a resource of kind `kind` finds
Lookup(c, kind) == IF c.kind = kind THEN c.state ELSE "missing"

\* s3.list_objects_v2 on a bucket that does not exist raises NoSuchBucket
ReadFault(kind, st, f) ==
    IF kind = "S3_Bucket" /\ st = "missing" /\ f.read = "ok"
    THEN "ClientError" ELSE f.read

Call(api, kind, result) == [api |-> api, kind |-> kind, result |-> result]

GetClient == Call("get_client", "client", "ok")

\* str(e)
ErrorText(fault, api) == <<fault, "in", api>>

----------------------------------------------------------------------------
(* ResourceActionValidator *)

Verdict(valid, reason, calls) ==
    [raised |-> FALSE, valid |-> valid, reason |-> reason, calls |-> calls,
     associated_instance |-> <<>>]

\* an exception other than ClientError leaves the validator
ValidatorRaises(text, calls) ==
    [raised |-> TRUE, valid |-> FALSE, reason |-> text, calls |-> calls,
     associated_instance |-> <<>>]

\* a validate_ec2_stop without the `stopping` test
validate_ec2_stop_lenient(st, f) ==
    LET calls == <<GetClient, Call("describe_instances", "read", f.read)>>
    IN  IF f.read = "ClientError"
        THEN Verdict(FALSE, <<"API error:">> \o ErrorText(f.read, "describe_instances"), calls)
        ELSE IF f.read = "Exception"
        THEN ValidatorRaises(ErrorText(f.read, "describe_instances"), calls)
        ELSE IF st = "missing" THEN Verdict(FALSE, <<"Instance not found">>, calls)
        ELSE IF st = "stopped" THEN Verdict(FALSE, <<"Instance already stopped">>, calls)
        ELSE IF st = "terminated" THEN Verdict(FALSE, <<"Instance is terminated">>, calls)
        ELSE IF st = "terminating" THEN Verdict(FALSE, <<"Instance is terminating">>, calls)
        ELSE Verdict(TRUE, <<>>, calls)

\* a validate_ec2_stop that stops the instance while looking at it
validate_ec2_stop_stopping(st, f) ==
    LET calls == <<GetClient, Call("describe_instances", "read", f.read),
                   Call("stop_instances", "mutate", "ok")>>
    IN  IF f.read = "ClientError"
        THEN Verdict(FALSE, <<"API error:">> \o ErrorText(f.read, "describe_instances"), calls)
        ELSE IF f.read = "Exception"
        THEN ValidatorRaises(ErrorText(f.read, "describe_instances"), calls)
        ELSE IF st = "missing" THEN Verdict(FALSE, <<"Instance not found">>, calls)
        ELSE IF st = "stopped" THEN Verdict(FALSE, <<"Instance already stopped">>, calls)
        ELSE IF st = "stopping" THEN Verdict(FALSE, <<"Instance is already stopping">>, calls)
        ELSE IF st = "terminated" THEN Verdict(FALSE, <<"Instance is terminated">>, calls)
        ELSE IF st = "terminating" THEN Verdict(FALSE, <<"Instance is terminating">>, calls)
        ELSE Verdict(TRUE, <<>>, calls)

validate_ec2_stop(st, f) ==
    LET calls == <<GetClient, Call("describe_instances", "read", f.read)>>
    IN  IF f.read = "ClientError"
        THEN Verdict(FALSE, <<"API error:">> \o ErrorText(f.read, "describe_instances"), calls)
        ELSE IF f.read = "Exception"
        THEN ValidatorRaises(ErrorText(f.read, "describe_instances"), calls)
        ELSE IF st = "missing" THEN Verdict(FALSE, <<"Instance not found">>, calls)
        ELSE IF st = "stopped" THEN Verdict(FALSE, <<"Instance already stopped">>, calls)
        ELSE IF st = "stopping" THEN Verdict(FALSE, <<"Instance is already stopping">>, calls)
        ELSE IF st = "terminated" THEN Verdict(FALSE, <<"Instance is terminated">>, calls)
        ELSE IF st = "terminating" THEN Verdict(FALSE, <<"Instance is terminating">>, calls)
        ELSE Verdict(TRUE, <<>>, calls)

validate_rds_stop(st, f) ==
    LET calls == <<GetClient, Call("describe_db_instances", "read", f.read)>>
    IN  IF f.read = "ClientError"
        THEN Verdict(FALSE, <<"API error:">> \o ErrorText(f.read, "describe_db_instances"), calls)
        ELSE IF f.read = "Exception"
        THEN ValidatorRaises(ErrorText(f.read, "describe_db_instances"), calls)
        ELSE IF st = "missing" THEN Verdict(FALSE, <<"RDS instance not found">>, calls)
        ELSE IF st \in {"stopping", "stopped"}
        THEN Verdict(FALSE, <<"Instance already", st>>, calls)
        ELSE Verdict(TRUE, <<>>, calls)

validate_nat_gateway_delete(st, f) ==
    LET calls == <<GetClient, Call("describe_nat_gateways", "read", f.read)>>
    IN  IF f.read = "ClientError"
        THEN Verdict(FALSE, <<"API error:">> \o ErrorText(f.read, "describe_nat_gateways"), calls)
        ELSE IF f.read = "Exception"
        THEN ValidatorRaises(ErrorText(f.read, "describe_nat_gateways"), calls)
        ELSE IF st = "missing" THEN Verdict(FALSE, <<"NAT Gateway not found">>, calls)
        ELSE IF st = "deleted" THEN Verdict(FALSE, <<"NAT Gateway already deleted">>, calls)
        ELSE IF st = "deleting" THEN Verdict(FALSE, <<"NAT Gateway is already deleting">>, calls)
        ELSE Verdict(TRUE, <<>>, calls)

\* the instance an associated address answers with in InstanceId
AssociatedInstance == <<"i-1">>

\* a validate_elastic_ip_release whose rejection names no instance
validate_elastic_ip_release_bare(st, f) ==
    LET calls == <<GetClient, Call("describe_addresses", "read", f.read)>>
    IN  IF f.read = "ClientError"
        THEN Verdict(FALSE, <<"API error:">> \o ErrorText(f.read, "describe_addresses"), calls)
        ELSE IF f.read = "Exception"
        THEN ValidatorRaises(ErrorText(f.read, "describe_addresses"), calls)
        ELSE IF st = "missing" THEN Verdict(FALSE, <<"Elastic IP not found">>, calls)
        ELSE IF st = "associated"
        THEN Verdict(FALSE, <<"Elastic IP is still associated with an instance">>, calls)
        ELSE Verdict(TRUE, <<>>, calls)

validate_elastic_ip_release(st, f) ==
    LET calls == <<GetClient, Call("describe_addresses", "read", f.read)>>
    IN  IF f.read = "ClientError"
        THEN Verdict(FALSE, <<"API error:">> \o ErrorText(f.read, "describe_addresses"), calls)
        ELSE IF f.read = "Exception"
        THEN ValidatorRaises(ErrorText(f.read, "describe_addresses"), calls)
        ELSE IF st = "missing" THEN Verdict(FALSE, <<"Elastic IP not found">>, calls)
        ELSE IF st = "associated"
        THEN [Verdict(FALSE, <<"Elastic IP is still associated with an instance">>, calls)
                EXCEPT !.associated_instance = AssociatedInstance]
        ELSE Verdict(TRUE, <<>>, calls)

----------------------------------------------------------------------------
(* ResourceActionExecutor *)

\* DeleteResult(success, resource_id, resource_type, action, message,
\* verification_status, error=None)
\* an outcome record that leaves a successful action's status at 'pending'
DeleteResultPending(success, rid, rtype, act, message, vstatus, error) ==
    [ success |-> success, resource_id |-> rid, resource_type |-> rtype,
      action |-> act, message |-> message,
      verification_status |-> IF success THEN "pending" ELSE vstatus,
      error |-> error ]

DeleteResult(success, rid, rtype, act, message, vstatus, error) ==
    [ success |-> success, resource_id |-> rid, resource_type |-> rtype,
      action |-> act, message |-> message, verification_status |-> vstatus,
      error |-> error ]

NoOutcome == DeleteResult(FALSE, "", "", "", <<>>, "none", <<>>)

\* What one executor method did: the DeleteResult it returned, or the
\* exception that left it; the provider calls it made, in order; and the
\* resource's state afterwards.
Returned(outcome, calls, st) ==
    [raised |-> FALSE, outcome |-> outcome, exc |-> <<>>, calls |-> calls,
     state |-> st]

Raised(text, calls, st) ==
    [raised |-> TRUE, outcome |-> NoOutcome, exc |-> text, calls |-> calls,
     state |-> st]

\* the part the four validator-backed methods share after validation passed:
\* try: get_client; <mutating call>; return success  except ClientError: ...
\* a handler that reports the failed mutation without the provider's text
MutateAfterValidation_no_error(v, rid, rtype, act, api, okmsg, failmsg, st, f) ==
    LET calls == v.calls \o <<GetClient, Call(api, "mutate", f.mutate)>>
    IN  IF f.mutate = "ClientError"
        THEN Returned(DeleteResult(FALSE, rid, rtype, act, failmsg, "failed",
                                   <<>>), calls, st)
        ELSE IF f.mutate = "Exception"
        THEN Raised(ErrorText(f.mutate, api), calls, st)
        ELSE Returned(DeleteResult(TRUE, rid, rtype, act, okmsg, "verified", <<>>),
                      calls, AfterMutation[api])

MutateAfterValidation(v, rid, rtype, act, api, okmsg, failmsg, st, f) ==
    LET calls == v.calls \o <<GetClient, Call(api, "mutate", f.mutate)>>
    IN  IF f.mutate = "ClientError"
        THEN Returned(DeleteResult(FALSE, rid, rtype, act, failmsg, "failed",
                                   ErrorText(f.mutate, api)), calls, st)
        ELSE IF f.mutate = "Exception"
        THEN Raised(ErrorText(f.mutate, api), calls, st)
        ELSE Returned(DeleteResult(TRUE, rid, rtype, act, okmsg, "verified", <<>>),
                      calls, AfterMutation[api])

\* return DeleteResult(success=False, message=validation['reason'],
\*                     verification_status='failed', error=validation['reason'])
RejectedByValidation(v, rid, rtype, act, st) ==
    Returned(DeleteResult(FALSE, rid, rtype, act, v.reason, "failed", v.reason),
             v.calls, st)

\* a stop that goes on to the mutating call whatever the validator said
stop_ec2_instance_unchecked(rid, st, f) ==
    LET v == validate_ec2_stop(st, f)
    IN  IF v.raised THEN Raised(v.reason, v.calls, st)
        ELSE MutateAfterValidation(v, rid, "EC2_Instance", "stop", "stop_instances",
               <<"Instance stop initiated. Current state:", "stopping">>,
               <<"Failed to stop instance">>, st, f)

stop_ec2_instance(rid, st, f) ==
    LET v == validate_ec2_stop(st, f)
    IN  IF v.raised THEN Raised(v.reason, v.calls, st)
        ELSE IF ~v.valid THEN RejectedByValidation(v, rid, "EC2_Instance", "stop", st)
        ELSE
          LET m == MutateAfterValidation(v, rid, "EC2_Instance", "stop",
                     "stop_instances", <<>>, <<"Failed to stop instance">>, st, f)
              calls == m.calls \o <<Call("describe_instances", "read", f.confirm)>>
          IN  IF m.raised \/ ~m.outcome.success THEN m
              \* "Verify stop was initiated": the re-read sits in the same try
              ELSE IF f.confirm = "ClientError"
              THEN Returned(DeleteResult(FALSE, rid, "EC2_Instance", "stop",
                              <<"Failed to stop instance">>, "failed",
                              ErrorText(f.confirm, "describe_instances")),
                            calls, m.state)
              ELSE IF f.confirm = "Exception"
              THEN Raised(ErrorText(f.confirm, "describe_instances"), calls, m.state)
              ELSE Returned(DeleteResult(TRUE, rid, "EC2_Instance", "stop",
                              <<"Instance stop initiated. Current state:", m.state>>,
                              "verified", <<>>),
                            calls, m.state)

stop_rds_instance(rid, st, f) ==
    LET v == validate_rds_stop(st, f)
    IN  IF v.raised THEN Raised(v.reason, v.calls, st)
        ELSE IF ~v.valid THEN RejectedByValidation(v, rid, "RDS_Instance", "stop", st)
        ELSE MutateAfterValidation(v, rid, "RDS_Instance", "stop", "stop_db_instance",
               <<"RDS instance stop initiated">>, <<"Failed to stop RDS instance">>,
               st, f)

delete_nat_gateway(rid, st, f) ==
    LET v == validate_nat_gateway_delete(st, f)
    IN  IF v.raised THEN Raised(v.reason, v.calls, st)
        ELSE IF ~v.valid THEN RejectedByValidation(v, rid, "NAT_Gateway", "delete", st)
        ELSE MutateAfterValidation(v, rid, "NAT_Gateway", "delete", "delete_nat_gateway",
               <<"NAT Gateway deletion initiated">>, <<"Failed to delete NAT Gateway">>,
               st, f)

release_elastic_ip(rid, st, f) ==
    LET v == validate_elastic_ip_release(st, f)
    IN  IF v.raised THEN Raised(v.reason, v.calls, st)
        ELSE IF ~v.valid THEN RejectedByValidation(v, rid, "Elastic_IP", "delete", st)
        ELSE MutateAfterValidation(v, rid, "Elastic_IP", "delete", "release_address",
               <<"Elastic IP released successfully">>, <<"Failed to release Elastic IP">>,
               st, f)

\* the whole body is one try ... except ClientError
delete_ebs_volume(rid, st, f) ==
    LET read == <<GetClient, Call("describe_volumes", "read", f.read)>>
        all  == read \o <<Call("delete_volume", "mutate", f.mutate)>>
        fail(api, fault) ==
            DeleteResult(FALSE, rid, "EBS_Volume", "delete",
                         <<"Failed to delete EBS volume">>, "failed",
                         ErrorText(fault, api))
    IN  IF f.read = "ClientError"
        THEN Returned(fail("describe_volumes", f.read), read, st)
        ELSE IF f.read = "Exception"
        THEN Raised(ErrorText(f.read, "describe_volumes"), read, st)
        ELSE IF st = "missing"
        THEN Returned(DeleteResult(FALSE, rid, "EBS_Volume", "delete",
                        <<"Volume not found">>, "failed", <<>>), read, st)
        ELSE IF st # "available"
        THEN Returned(DeleteResult(FALSE, rid, "EBS_Volume", "delete",
                        <<"Volume is in", st, "state. Must be available to delete.">>,
                        "failed", <<"Volume state:", st>>), read, st)
        ELSE IF f.mutate = "ClientError"
        THEN Returned(fail("delete_volume", f.mutate), all, st)
        ELSE IF f.mutate = "Exception"
        THEN Raised(ErrorText(f.mutate, "delete_volume"), all, st)
        ELSE Returned(DeleteResult(TRUE, rid, "EBS_Volume", "delete",
                        <<"EBS volume deleted successfully">>, "verified", <<>>),
                      all, AfterMutation["delete_volume"])

\* s3.delete_bucket on a bucket that is missing or still holds objects is
\* refused by the provider (NoSuchBucket, BucketNotEmpty)
DeleteBucketFault(st, f) ==
    IF st # "empty" /\ f.mutate = "ok" THEN "ClientError" ELSE f.mutate

\* inner `try: list_objects_v2 ... except ClientError: pass`, then
\* delete_bucket, all inside the outer try ... except ClientError
delete_s3_bucket(rid, st, f) ==
    LET rf   == ReadFault("S3_Bucket", st, f)
        mf   == DeleteBucketFault(st, f)
        read == <<GetClient, Call("list_objects_v2", "read", rf)>>
        all  == read \o <<Call("delete_bucket", "mutate", mf)>>
    IN  IF rf = "Exception"
        THEN Raised(ErrorText(rf, "list_objects_v2"), read, st)
        ELSE IF rf = "ok" /\ st = "nonempty"
        THEN Returned(DeleteResult(FALSE, rid, "S3_Bucket", "delete",
                        <<"Bucket is not empty. All objects must be deleted first.">>,
                        "failed", <<>>), read, st)
        ELSE IF mf = "ClientError"
        THEN Returned(DeleteResult(FALSE, rid, "S3_Bucket", "delete",
                        <<"Failed to delete S3 bucket">>, "failed",
                        ErrorText(mf, "delete_bucket")), all, st)
        ELSE IF mf = "Exception"
        THEN Raised(ErrorText(mf, "delete_bucket"), all, st)
        ELSE Returned(DeleteResult(TRUE, rid, "S3_Bucket", "delete",
                        <<"S3 bucket deleted successfully">>, "verified", <<>>),
                      all, AfterMutation["delete_bucket"])

\* action_map of execute_action
action_map ==
    (<<"EC2_Instance", "stop">>   :> "stop_ec2_instance") @@
    (<<"RDS_Instance", "stop">>   :> "stop_rds_instance") @@
    (<<"NAT_Gateway", "delete">>  :> "delete_nat_gateway") @@
    (<<"Elastic_IP", "delete">>   :> "release_elastic_ip") @@
    (<<"EBS_Volume", "delete">>   :> "delete_ebs_volume") @@
    (<<"S3_Bucket", "delete">>    :> "delete_s3_bucket")

ExecutorMethods == {action_map[p] : p \in DOMAIN action_map}

\* the resource kind each method addresses
MethodKind ==
    [m \in ExecutorMethods |-> (CHOOSE p \in DOMAIN action_map : action_map[p] = m)[1]]

\* the positional parameters each method declares after self:
\* (id, region), but delete_s3_bucket(bucket_name) alone
MethodParams ==
    [m \in ExecutorMethods |->
        IF m = "delete_s3_bucket" THEN <<"bucket_name">> ELSE <<"id", "region">>]

CallMethod(m, rid, st, f) ==
    CASE m = "stop_ec2_instance"  -> stop_ec2_instance(rid, st, f)
      [] m = "stop_rds_instance"  -> stop_rds_instance(rid, st, f)
      [] m = "delete_nat_gateway" -> delete_nat_gateway(rid, st, f)
      [] m = "release_elastic_ip" -> release_elastic_ip(rid, st, f)
      [] m = "delete_ebs_volume"  -> delete_ebs_volume(rid, st, f)
      [] m = "delete_s3_bucket"   -> delete_s3_bucket(rid, st, f)

\* `return action_func(resource_id, region)`: two positional arguments
CallWithTwoArguments(m, rid, st, f) ==
    IF Len(MethodParams[m]) # Len(<<"resource_id", "region">>)
    THEN Raised(<<"TypeError", "in", m>>, <<>>, st)
    ELSE CallMethod(m, rid, st, f)

Unsupported(rtype, rid, act) ==
    DeleteResult(FALSE, rid, rtype, act,
                 <<"Unsupported action", act, "for resource type", rtype>>,
                 "failed", <<>>)

\* an execute_action whose lookup miss falls back to the first handler
execute_action_fallback(rtype, rid, act, st, f) ==
    LET m == IF <<rtype, act>> \in DOMAIN action_map
             THEN action_map[<<rtype, act>>] ELSE "stop_ec2_instance"
        r == CallWithTwoArguments(m, rid, st, f)
    IN  IF r.raised
        THEN Returned(DeleteResult(FALSE, rid, rtype, act,
                        <<"Unexpected error during action execution">>,
                        "failed", r.exc), r.calls, r.state)
        ELSE r

\* an execute_action without the try ... except Exception around the call
execute_action_uncaught(rtype, rid, act, st, f) ==
    IF <<rtype, act>> \notin DOMAIN action_map
    THEN Returned(Unsupported(rtype, rid, act), <<>>, st)
    ELSE CallWithTwoArguments(action_map[<<rtype, act>>], rid, st, f)

\* ResourceActionExecutor.execute_action
execute_action(rtype, rid, act, st, f) ==
    IF <<rtype, act>> \notin DOMAIN action_map
    THEN Returned(Unsupported(rtype, rid, act), <<>>, st)
    ELSE LET r == CallWithTwoArguments(action_map[<<rtype, act>>], rid, st, f)
         IN  IF r.raised
             THEN Returned(DeleteResult(FALSE, rid, rtype, act,
                             <<"Unexpected error during action execution">>,
                             "failed", r.exc), r.calls, r.state)
             ELSE r

----------------------------------------------------------------------------
(* One executor call at a time against one resource *)

ResourceId == "r-1"

NoCall ==
    [ entry |-> "none", resource_type |-> "", action |-> "",
      found |-> "", raised |-> FALSE, outcome |-> NoOutcome, exc |-> <<>>,
      calls |-> <<>> ]

\* the four static methods of ResourceActionValidator and what they look at
Validators ==
    {"validate_ec2_stop", "validate_rds_stop", "validate_nat_gateway_delete",
     "validate_elastic_ip_release"}

ValidatorKind ==
    ("validate_ec2_stop" :> "EC2_Instance") @@
    ("validate_rds_stop" :> "RDS_Instance") @@
    ("validate_nat_gateway_delete" :> "NAT_Gateway") @@
    ("validate_elastic_ip_release" :> "Elastic_IP")

CallValidator(name, st, f) ==
    CASE name = "validate_ec2_stop" -> validate_ec2_stop(st, f)
      [] name = "validate_rds_stop" -> validate_rds_stop(st, f)
      [] name = "validate_nat_gateway_delete" -> validate_nat_gateway_delete(st, f)
      [] name = "validate_elastic_ip_release" -> validate_elastic_ip_release(st, f)

\* the resource after the provider has served a sequence of calls: a mutating
\* call that answers moves it, every other call leaves it alone
RECURSIVE StateAfterCalls(_, _)
StateAfterCalls(st, calls) ==
    IF calls = <<>> THEN st
    ELSE LET c == Head(calls)
         IN  StateAfterCalls(IF c.kind = "mutate" /\ c.result = "ok"
                             THEN AfterMutation[c.api] ELSE st,
                             Tail(calls))

NoPrevious == [name |-> "none", read |-> "ok", found |-> "", valid |-> FALSE,
               reason |-> <<>>]

NoValidation ==
    [ name |-> "none", found |-> "", read |-> "ok", raised |-> FALSE,
      valid |-> FALSE, reason |-> <<>>, associated_instance |-> <<>>,
      calls |-> <<>>, after |-> "", previous |-> NoPrevious ]

ActionInit ==
    /\ cloud \in UNION { { [kind |-> k, state |-> s] : s \in KindStates[k] } :
                         k \in MappedKinds }
    /\ last = NoCall
    /\ validation = NoValidation

\* what a finished call leaves in `last`
Finished(entry, rtype, act, st, r) ==
    [ entry |-> entry, resource_type |-> rtype, action |-> act, found |-> st,
      raised |-> r.raised, outcome |-> r.outcome, exc |-> r.exc,
      calls |-> r.calls ]

\* the provider's resource after a call addressed to kind `rtype`
CloudAfter(c, rtype, r) ==
    IF c.kind = rtype THEN [c EXCEPT !.state = r.state] ELSE c

\* a caller runs executor.execute_action(resource_type, id, region, action)
ExecuteAction ==
    \E rtype \in RequestKinds, act \in ActionTypes, f \in FaultPlans :
      LET st == Lookup(cloud, rtype)
          r  == execute_action(rtype, ResourceId, act, st, f)
      IN  /\ last' = Finished("execute_action", rtype, act, st, r)
          /\ cloud' = CloudAfter(cloud, rtype, r)
          /\ validation' = NoValidation

\* a caller runs one of the executor's methods itself, as the module's own
\* usage example does with stop_ec2_instance
DirectCall ==
    \E m \in ExecutorMethods, f \in FaultPlans :
      LET rtype == MethodKind[m]
          st    == Lookup(cloud, rtype)
          r     == CallMethod(m, ResourceId, st, f)
          act   == (CHOOSE p \in DOMAIN action_map : action_map[p] = m)[2]
      IN  /\ last' = Finished(m, rtype, act, st, r)
          /\ cloud' = CloudAfter(cloud, rtype, r)
          /\ validation' = NoValidation

\* a caller runs one validator itself:
\* ResourceActionValidator.validate_x(session_manager, id, region)
Validate ==
    \E name \in Validators, rf \in Faults :
      LET kind  == ValidatorKind[name]
          st    == Lookup(cloud, kind)
          v     == CallValidator(name, st,
                     [read |-> rf, mutate |-> "ok", confirm |-> "ok"])
          after == StateAfterCalls(st, v.calls)
      IN  /\ validation' =
                [ name |-> name, found |-> st, read |-> rf, raised |-> v.raised,
                  valid |-> v.valid, reason |-> v.reason,
                  associated_instance |-> v.associated_instance,
                  calls |-> v.calls, after |-> after,
                  previous |-> [ name |-> validation.name,
                                 read |-> validation.read,
                                 found |-> validation.found,
                                 valid |-> validation.valid,
                                 reason |-> validation.reason ] ]
          /\ cloud' = IF cloud.kind = kind THEN [cloud EXCEPT !.state = after]
                      ELSE cloud
          /\ last' = NoCall

ActionNext == ExecuteAction \/ DirectCall \/ Validate

----------------------------------------------------------------------------
(* api.perform_bulk_action *)

NoId == "None"
Missing == "None"

\* str.lower() and str.upper() on the action strings requests carry
Lower ==
    ("stop" :> "stop") @@ ("STOP" :> "stop") @@ ("Delete" :> "delete") @@
    ("restart" :> "restart") @@ ("" :> "")

Upper ==
    ("stop" :> "STOP") @@ ("delete" :> "DELETE") @@
    ("restart" :> "RESTART") @@ ("" :> "")

\* ActionType[...]: the enum looked up by member name
ActionTypeByName ==
    ("STOP" :> "stop") @@ ("DELETE" :> "delete") @@ ("TERMINATE" :> "terminate")

\* one element of the JSON `actions` array: an object with some of the keys
\* resource_id, resource_type, action, or a JSON value that is no object
Entry(rid, rtype, act) ==
    [shape |-> "object", resource_id |-> rid, resource_type |-> rtype,
     action |-> act]

NotAMapping ==
    [shape |-> "string", resource_id |-> NoId, resource_type |-> Missing,
     action |-> Missing]

BulkEntries ==
    { Entry(ResourceId, "EC2_Instance", "STOP"),
      Entry(ResourceId, "Lambda_Function", "Delete"),
      Entry(NoId, "EC2_Instance", "stop"),
      Entry(ResourceId, "EC2_Instance", Missing),
      Entry(ResourceId, "EC2_Instance", "restart"),
      NotAMapping }

BulkLists == UNION { [1..n -> BulkEntries] : n \in 0..MaxEntries }

\* action_data.get(key): the value, None when the key is absent, and an
\* AttributeError when action_data is no mapping
GetRaises(e) == e.shape # "object"

\* action_data.get('action', '')
GetAction(e) == IF e.action = Missing THEN "" ELSE e.action

\* a provider call given None for an identifier fails parameter validation
\* in the client before anything is sent
FaultsFor(rid, f) == IF rid = NoId THEN [f EXCEPT !.read = "Exception"] ELSE f

NoResponse ==
    [status |-> 0, success |-> FALSE, error |-> <<>>, total_actions |-> 0,
     successful |-> 0, failed |-> 0, results |-> <<>>]

ErrorResponse(code, text) ==
    [NoResponse EXCEPT !.status = code, !.error = text]

ResultRow(rid, success, message) ==
    [resource_id |-> rid, success |-> success, message |-> message]

BulkInit ==
    /\ bulk_request \in [credentials : BOOLEAN, actions : BulkLists]
    /\ bulk_pc = "start"
    /\ bulk_results = <<>>
    /\ bulk_session = "none"
    /\ bulk_response = NoResponse
    /\ bulk_calls = <<>>
    /\ cloud \in { [kind |-> "EC2_Instance", state |-> st] :
                   st \in {"running", "stopped"} }
    /\ last = NoCall
    /\ validation = NoValidation

\* extract_credentials_from_request(); `if not actions_list`; session and
\* executor construction
BulkBegin ==
    /\ bulk_pc = "start"
    /\ IF ~bulk_request.credentials
       THEN /\ bulk_response' =
                 ErrorResponse(400, <<"AWS credentials missing from request">>)
            /\ bulk_pc' = "done"
            /\ UNCHANGED bulk_session
       ELSE IF bulk_request.actions = <<>>
       THEN /\ bulk_response' = ErrorResponse(400, <<"No actions provided">>)
            /\ bulk_pc' = "done"
            /\ UNCHANGED bulk_session
       ELSE /\ bulk_session' = "open"
            /\ bulk_pc' = "loop"
            /\ UNCHANGED bulk_response
    /\ UNCHANGED <<bulk_request, bulk_results, bulk_calls, cloud, last>>

\* a loop that walks the list from its end
NextEntryFromEnd(actions, done) == Len(actions) - done

\* `for action_data in actions_list:` with `done` entries behind it
NextEntry(actions, done) == done + 1

\* the provider calls of one execute_action, tagged with the entry's index
CallsOfEntry(k, calls) ==
    [c \in 1..Len(calls) |->
       [entry |-> k, kind |-> calls[c].kind, api |-> calls[c].api]]

\* one pass of `for action_data in actions_list:`
BulkIteration ==
    /\ bulk_pc = "loop"
    /\ Len(bulk_results) < Len(bulk_request.actions)
    /\ LET k == NextEntry(bulk_request.actions, Len(bulk_results))
           e == bulk_request.actions[k]
       IN  IF GetRaises(e)
           THEN \* .get raises in the try block and again in the handler
                /\ bulk_response' = ErrorResponse(500, <<"Internal server error">>)
                /\ bulk_pc' = "done"
                /\ UNCHANGED <<bulk_results, bulk_calls, cloud, last>>
           ELSE LET name == Upper[Lower[GetAction(e)]]
                IN  IF name \notin DOMAIN ActionTypeByName
                    THEN /\ bulk_results' = Append(bulk_results,
                               ResultRow(e.resource_id, FALSE, <<"KeyError", name>>))
                         /\ UNCHANGED <<bulk_pc, bulk_response, bulk_calls, cloud,
                                        last>>
                    ELSE \E f \in FaultPlans :
                           LET act == ActionTypeByName[name]
                               st  == Lookup(cloud, e.resource_type)
                               r   == execute_action(e.resource_type, e.resource_id,
                                         act, st, FaultsFor(e.resource_id, f))
                           IN  /\ bulk_results' = Append(bulk_results,
                                     ResultRow(r.outcome.resource_id,
                                               r.outcome.success, r.outcome.message))
                               /\ bulk_calls' = bulk_calls \o CallsOfEntry(k, r.calls)
                               /\ cloud' = CloudAfter(cloud, e.resource_type, r)
                               /\ last' = Finished("execute_action", e.resource_type,
                                                   act, st, r)
                               /\ UNCHANGED <<bulk_pc, bulk_response>>
    /\ UNCHANGED <<bulk_request, bulk_session>>

\* session_manager.cleanup() and the 200 response
BulkFinish ==
    /\ bulk_pc = "loop"
    /\ Len(bulk_results) = Len(bulk_request.actions)
    /\ bulk_session' = "closed"
    /\ bulk_response' =
         [status |-> 200, success |-> TRUE, error |-> <<>>,
          total_actions |-> Len(bulk_results),
          successful |-> Cardinality({i \in DOMAIN bulk_results :
                                         bulk_results[i].success}),
          failed |-> Cardinality({i \in DOMAIN bulk_results :
                                     ~bulk_results[i].success}),
          results |-> bulk_results]
    /\ bulk_pc' = "done"
    /\ UNCHANGED <<bulk_request, bulk_results, bulk_calls, cloud, last>>

BulkNext == BulkBegin \/ BulkIteration \/ BulkFinish

----------------------------------------------------------------------------
(* AWSSessionManager.get_client *)

Threads == 1..MaxThreads

\* self.region
DefaultRegion == "us-east-1"

\* (service, region) arguments the callers pass; region may be None
ClientServices == {"ec2", "rds"}
ClientRegions == {"us-east-1", "None"}

\* region = region or self.region; cache_key = f"{service}_{region}"
cache_key(service, region) ==
    <<service, "_", IF region = "None" THEN DefaultRegion ELSE region>>

NoKey == <<>>

\* `cache_key not in self._clients`
NotCached(key, cache) == key \notin DOMAIN cache

\* a second check that always goes on to construct
RecheckSkipped(key, cache) == TRUE

\* the check repeated under the lock
NotCachedUnderLock(key, cache) == NotCached(key, cache)

ClientInit ==
    /\ clients = [k \in {} |-> 0]
    /\ lock = 0
    /\ tpc = [t \in Threads |-> "idle"]
    /\ tkey = [t \in Threads |-> NoKey]
    /\ tleft = [t \in Threads |-> MaxCalls]
    /\ made = <<>>
    /\ returned = {}
    /\ session_set = TRUE
    /\ cleanup_pc = "idle"

\* a thread enters get_client(service, region)
Enter(t) ==
    /\ tpc[t] = "idle"
    /\ tleft[t] > 0
    /\ \E sv \in ClientServices, rg \in ClientRegions :
         tkey' = [tkey EXCEPT ![t] = cache_key(sv, rg)]
    /\ tleft' = [tleft EXCEPT ![t] = @ - 1]
    /\ tpc' = [tpc EXCEPT ![t] = "check"]
    /\ UNCHANGED <<clients, lock, made, returned, session_set, cleanup_pc>>

\* if cache_key not in self._clients:
FirstCheck(t) ==
    /\ tpc[t] = "check"
    /\ tpc' = [tpc EXCEPT ![t] =
                 IF NotCached(tkey[t], clients) THEN "acquire" ELSE "return"]
    /\ UNCHANGED <<clients, lock, tkey, tleft, made, returned, session_set,
                   cleanup_pc>>

\* with self._lock:
Acquire(t) ==
    /\ tpc[t] = "acquire"
    /\ lock = 0
    /\ lock' = t
    /\ tpc' = [tpc EXCEPT ![t] = "recheck"]
    /\ UNCHANGED <<clients, tkey, tleft, made, returned, session_set, cleanup_pc>>

\* if cache_key not in self._clients:
\*     self._clients[cache_key] = self._session.client(service, region_name=region)
\* With self._session set to None by cleanup(), `self._session.client` raises
\* AttributeError: the with block releases the lock and the call is left.
CreateUnderLock(t) ==
    /\ tpc[t] = "recheck"
    /\ IF NotCachedUnderLock(tkey[t], clients) /\ ~session_set
       THEN /\ lock' = 0
            /\ tpc' = [tpc EXCEPT ![t] = "idle"]
            /\ tkey' = [tkey EXCEPT ![t] = NoKey]
            /\ UNCHANGED <<made, clients>>
       ELSE /\ IF NotCachedUnderLock(tkey[t], clients)
               THEN /\ made' = Append(made, tkey[t])
                    /\ clients' = [k \in DOMAIN clients \cup {tkey[t]} |->
                                     IF k = tkey[t] THEN Len(made) + 1
                                     ELSE clients[k]]
               ELSE UNCHANGED <<made, clients>>
            /\ tpc' = [tpc EXCEPT ![t] = "release"]
            /\ UNCHANGED <<lock, tkey>>
    /\ UNCHANGED <<tleft, returned, session_set, cleanup_pc>>

\* leaving the with block
Release(t) ==
    /\ tpc[t] = "release"
    /\ lock' = 0
    /\ tpc' = [tpc EXCEPT ![t] = "return"]
    /\ UNCHANGED <<clients, tkey, tleft, made, returned, session_set, cleanup_pc>>

\* return self._clients[cache_key]; a key that cleanup() removed meanwhile
\* raises KeyError and nothing is returned
Return(t) ==
    /\ tpc[t] = "return"
    /\ returned' = IF tkey[t] \in DOMAIN clients
                   THEN returned \cup {<<tkey[t], clients[tkey[t]]>>}
                   ELSE returned
    /\ tpc' = [tpc EXCEPT ![t] = "idle"]
    /\ tkey' = [tkey EXCEPT ![t] = NoKey]
    /\ UNCHANGED <<clients, lock, tleft, made, session_set, cleanup_pc>>

ClientNext ==
    \E t \in Threads :
        \/ Enter(t)
        \/ FirstCheck(t)
        \/ Acquire(t)
        \/ CreateUnderLock(t)
        \/ Release(t)
        \/ Return(t)

\* cleanup() run by the owner of the session manager while the threads are
\* inside get_client; it does not take self._lock, and another thread may
\* run between any two of its statements.
\* self._clients.clear()
CleanupClearClients ==
    /\ cleanup_pc = "idle"
    /\ clients' = [k \in {} |-> 0]
    /\ cleanup_pc' = "clients_cleared"
    /\ UNCHANGED <<lock, tpc, tkey, tleft, made, returned, session_set>>

\* self._session = None
CleanupClearSession ==
    /\ cleanup_pc = "clients_cleared"
    /\ session_set' = FALSE
    /\ cleanup_pc' = "session_cleared"
    /\ UNCHANGED <<clients, lock, tpc, tkey, tleft, made, returned>>

\* self._access_key = None; self._secret_key = None; return
CleanupReturn ==
    /\ cleanup_pc = "session_cleared"
    /\ cleanup_pc' = "returned"
    /\ UNCHANGED <<clients, lock, tpc, tkey, tleft, made, returned, session_set>>

CleanupNext ==
    ClientNext \/ CleanupClearClients \/ CleanupClearSession \/ CleanupReturn

----------------------------------------------------------------------------
(* AWSSessionManager: construction, use by one caller, cleanup *)

\* Python's None in a field that otherwise holds a string or an object
Cleared == "None"

\* `not x` for a credential argument
Falsy(x) == x \in {"", Cleared}

\* credential strings a caller may pass
AccessKeys == {"", "AKIAEXAMPLE"}
SecretKeys == {"", "secret"}

NoClients == [k \in {} |-> 0]

\* the object before __init__ has run
Unconstructed ==
    [ alive |-> "unconstructed", region |-> DefaultRegion,
      access_key |-> Cleared, secret_key |-> Cleared, session |-> Cleared,
      clients |-> NoClients ]

\* what one call did: the exception that left it or the value it returned,
\* and how many boto3.Session objects it constructed
CallResult(op, args, raised, exc, value, sessions, again) ==
    [ op |-> op, args |-> args, raised |-> raised, exc |-> exc,
      value |-> value, sessions |-> sessions, again |-> again ]

NoSessionCall == CallResult("none", <<>>, FALSE, <<>>, <<>>, 0, FALSE)

\* a test that looks at the access key only
AccessKeyEmpty(ak, sk) == Falsy(ak)

\* the `if not access_key_id or not secret_access_key` test of __init__
CredentialsEmpty(ak, sk) == Falsy(ak) \/ Falsy(sk)

\* AWSSessionManager.__init__ with _initialize_session; f is how the
\* boto3.Session constructor goes
session_init(ak, sk, f) ==
    IF CredentialsEmpty(ak, sk)
    THEN [ sm |-> [Unconstructed EXCEPT !.alive = "rejected"],
           raised |-> TRUE,
           exc |-> <<"ValueError", "AWS credentials cannot be empty">>,
           sessions |-> 0 ]
    ELSE LET fields == [Unconstructed EXCEPT !.access_key = ak,
                                             !.secret_key = sk]
         IN  IF f = "ok"
             THEN [ sm |-> [fields EXCEPT !.alive = "constructed",
                                          !.session = "session"],
                    raised |-> FALSE, exc |-> <<>>, sessions |-> 1 ]
             ELSE [ sm |-> [fields EXCEPT !.alive = "rejected"],
                    raised |-> TRUE,
                    exc |-> <<"ValueError", "Invalid AWS credentials">>,
                    sessions |-> 0 ]

\* the client self._session.client(service, region_name=region) builds
Handle(service, region) == <<"client", service, region>>

\* get_client run by one caller from start to end
session_get_client(m, service, region) ==
    LET rg  == IF region = "None" THEN m.region ELSE region
        key == cache_key(service, region)
    IN  IF NotCached(key, m.clients)
        THEN IF m.session = Cleared
             THEN [ sm |-> m, raised |-> TRUE,
                    exc |-> <<"AttributeError", "client">>, value |-> <<>> ]
             ELSE [ sm |-> [m EXCEPT !.clients =
                              (key :> Handle(service, rg)) @@ m.clients],
                    raised |-> FALSE, exc |-> <<>>,
                    value |-> Handle(service, rg) ]
        ELSE [ sm |-> m, raised |-> FALSE, exc |-> <<>>,
               value |-> m.clients[key] ]

\* AWSSessionManager.get_regions: get_client, then describe_regions
session_get_regions(m, d) ==
    LET c == session_get_client(m, "ec2", m.region)
        r == get_regions(d)
    IN  IF c.raised THEN c
        ELSE [ sm |-> c.sm, raised |-> r.raised,
               exc |-> IF r.raised THEN <<d.fail, "in", "describe_regions">>
                       ELSE <<>>,
               value |-> r.regions ]

\* a cleanup that drops the handles and the session but keeps the keys
cleanup_keeps_keys(m) ==
    [m EXCEPT !.clients = NoClients, !.session = Cleared]

\* AWSSessionManager.cleanup
cleanup(m) ==
    [m EXCEPT !.clients = NoClients, !.session = Cleared,
              !.access_key = Cleared, !.secret_key = Cleared]

\* listings describe_regions can answer a direct get_regions call with
SessionListings ==
    { <<>> } \cup { <<r>> : r \in RegionCodes } \cup
    { <<a, b>> : a, b \in RegionCodes }

SessionDiscoveries ==
    { DiscoveryAnswer(l) : l \in SessionListings } \cup
    { DiscoveryFailure(k) : k \in {"ClientError", "Exception"} }

\* region arguments the caller passes to get_client; None is the default
SessionRegions == RegionCodes \cup {"None"}

SessionInit ==
    /\ sm = Unconstructed
    /\ sm_last = NoSessionCall

\* AWSSessionManager(access_key_id, secret_access_key)
Construct ==
    /\ sm.alive = "unconstructed"
    /\ \E ak \in AccessKeys, sk \in SecretKeys, f \in {"ok", "Exception"} :
         LET r == session_init(ak, sk, f)
         IN  /\ sm' = r.sm
             /\ sm_last' = CallResult("__init__", <<ak, sk>>, r.raised, r.exc,
                                      <<>>, r.sessions, FALSE)

\* session_manager.get_client(service, region)
SessionGetClient ==
    /\ sm.alive = "constructed"
    /\ \E sv \in ClientServices, rg \in SessionRegions :
         LET r == session_get_client(sm, sv, rg)
         IN  /\ sm' = r.sm
             /\ sm_last' = CallResult("get_client", <<sv, rg>>, r.raised, r.exc,
                                      r.value, 0, FALSE)

\* session_manager.get_regions()
SessionGetRegions ==
    /\ sm.alive = "constructed"
    /\ \E d \in SessionDiscoveries :
         LET r == session_get_regions(sm, d)
         IN  /\ sm' = r.sm
             /\ sm_last' = CallResult("get_regions", <<d>>, r.raised, r.exc,
                                      r.value, 0, FALSE)

\* session_manager.cleanup()
SessionCleanup ==
    /\ sm.alive = "constructed"
    /\ sm' = cleanup(sm)
    /\ sm_last' = CallResult("cleanup", <<>>, FALSE, <<>>, <<>>, 0,
                             sm_last.op = "cleanup")

SessionNext ==
    \/ Construct
    \/ SessionGetClient
    \/ SessionGetRegions
    \/ SessionCleanup

----------------------------------------------------------------------------
(* Specifications *)

\* the scan subsystem at rest
ScanIdle ==
    /\ phase = "IDLE"
    /\ max_workers = 1
    /\ provider = [t \in AllTaskKeys |-> Ok]
    /\ discovery = DiscoveryAnswer(<<>>)
    /\ regions = <<>>
    /\ futures = <<>>
    /\ status = <<>>
    /\ all_resources = <<>>
    /\ errors = <<>>
    /\ scan_result = NoResult
    /\ earlier = <<>>
    /\ invoked = <<>>
    /\ account = InitialAccount
    /\ cost_call = NoCostCall

\* the action subsystem at rest
ActionIdle ==
    /\ cloud = [kind |-> "EC2_Instance", state |-> "running"]
    /\ last = NoCall
    /\ validation = NoValidation

\* the session manager with no caller inside get_client
ClientIdle ==
    /\ clients = [k \in {} |-> 0]
    /\ lock = 0
    /\ tpc = [t \in Threads |-> "idle"]
    /\ tkey = [t \in Threads |-> NoKey]
    /\ tleft = [t \in Threads |-> 0]
    /\ made = <<>>
    /\ returned = {}
    /\ session_set = TRUE
    /\ cleanup_pc = "idle"

\* no bulk request in progress
BulkIdle ==
    /\ bulk_request = [credentials |-> FALSE, actions |-> <<>>]
    /\ bulk_pc = "done"
    /\ bulk_results = <<>>
    /\ bulk_session = "none"
    /\ bulk_response = NoResponse
    /\ bulk_calls = <<>>

\* no session manager under study
SessionIdle ==
    /\ sm = Unconstructed
    /\ sm_last = NoSessionCall

\* one scan
Init == ScanInit /\ ActionIdle /\ ClientIdle /\ BulkIdle /\ SessionIdle

Next == ScanNext /\ UNCHANGED <<actionVars, clientVars, bulkVars, sessionVars>>

Spec == Init /\ [][Next]_vars

\* the same scan when the coordinating thread and the pool workers keep
\* running and every provider call returns or fails
FairSpec == Init /\ [][Next]_vars /\ WF_vars(Next)

\* the max_workers argument of a scan() call: a pool size, or left out
PoolArguments ==
    { [supplied |-> TRUE, value |-> n] : n \in 1..MaxWorkers } \cup
    { [supplied |-> FALSE, value |-> 0] }

PoolSizeFor(arg) == IF arg.supplied THEN arg.value ELSE DefaultMaxWorkers

\* provider states in which at most the first task of the region fails
PoolProviderStates ==
    { p \in ProviderStates :
        \A t \in AllTaskKeys :
          p[t] # Ok => t = Task("EC2Scanner.scan_instances", "us-east-1") }

\* one scan under every pool size a caller can ask for, the default included
InitPool ==
    /\ phase = "IDLE"
    /\ max_workers \in { PoolSizeFor(a) : a \in PoolArguments }
    /\ provider \in PoolProviderStates
    /\ discovery \in ScanDiscoveries
    /\ regions = <<>>
    /\ futures = <<>>
    /\ status = <<>>
    /\ all_resources = <<>>
    /\ errors = <<>>
    /\ scan_result = NoResult
    /\ earlier = <<>>
    /\ invoked = <<>>
    /\ account = InitialAccount
    /\ cost_call = NoCostCall
    /\ ActionIdle /\ ClientIdle /\ BulkIdle /\ SessionIdle

SpecPool == InitPool /\ [][Next]_vars

\* one scan, with a pool of one, of an account whose region listing names a
\* region twice
InitRepeat ==
    /\ phase = "IDLE"
    /\ max_workers = 1
    /\ provider \in PoolProviderStates
    /\ discovery = DiscoveryAnswer(RepeatedListing)
    /\ regions = <<>>
    /\ futures = <<>>
    /\ status = <<>>
    /\ all_resources = <<>>
    /\ errors = <<>>
    /\ scan_result = NoResult
    /\ earlier = <<>>
    /\ invoked = <<>>
    /\ account = InitialAccount
    /\ cost_call = NoCostCall
    /\ ActionIdle /\ ClientIdle /\ BulkIdle /\ SessionIdle

SpecRepeat == InitRepeat /\ [][Next]_vars

\* several scans, one after another, on one scanner with a pool of one
RescanStep ==
    (ScanNext \/ NextScan)
    /\ UNCHANGED <<actionVars, clientVars, bulkVars, sessionVars>>

InitRescan ==
    ScanInit /\ max_workers = 1 /\ ActionIdle /\ ClientIdle /\ BulkIdle
    /\ SessionIdle

SpecRescan == InitRescan /\ [][RescanStep]_vars

\* _build_cost_summary applied to a list of resources
CostStep ==
    CostCall /\ UNCHANGED <<actionVars, clientVars, bulkVars, sessionVars>>

\* the scanner at rest while a cost summary is computed
CostIdleScan ==
    /\ phase = "IDLE"
    /\ max_workers = 1
    /\ provider = [t \in AllTaskKeys |-> Ok]
    /\ discovery = DiscoveryAnswer(<<>>)
    /\ regions = <<>>
    /\ futures = <<>>
    /\ status = <<>>
    /\ all_resources = <<>>
    /\ errors = <<>>
    /\ scan_result = NoResult
    /\ earlier = <<>>
    /\ invoked = <<>>
    /\ account = InitialAccount

InitCost ==
    CostInit /\ CostIdleScan /\ ActionIdle /\ ClientIdle /\ BulkIdle
    /\ SessionIdle

SpecCost == InitCost /\ [][CostStep]_vars

\* executor calls, one after another, against one resource
ActionStep == ActionNext /\ UNCHANGED <<scanVars, clientVars, bulkVars, sessionVars>>

InitAction == ActionInit /\ ScanIdle /\ ClientIdle /\ BulkIdle /\ SessionIdle

SpecAction == InitAction /\ [][ActionStep]_vars

\* one bulk request
BulkStep ==
    BulkNext /\ UNCHANGED <<scanVars, clientVars, sessionVars, validation>>

InitBulk == BulkInit /\ ScanIdle /\ ClientIdle /\ SessionIdle

SpecBulk == InitBulk /\ [][BulkStep]_vars

\* threads racing through get_client on one session manager
ClientStep == ClientNext /\ UNCHANGED <<scanVars, actionVars, bulkVars, sessionVars>>

\* threads inside get_client while the owner calls cleanup()
CleanupStep ==
    CleanupNext /\ UNCHANGED <<scanVars, actionVars, bulkVars, sessionVars>>

InitClient == ClientInit /\ ScanIdle /\ ActionIdle /\ BulkIdle /\ SessionIdle

\* one caller constructing, using and cleaning up a session manager
SessionStep ==
    SessionNext /\ UNCHANGED <<scanVars, actionVars, clientVars, bulkVars>>

InitSession ==
    SessionInit /\ ScanIdle /\ ActionIdle /\ ClientIdle /\ BulkIdle

SpecSession == InitSession /\ [][SessionStep]_vars

SpecClient == InitClient /\ [][ClientStep]_vars

SpecCleanup == InitClient /\ [][CleanupStep]_vars

----------------------------------------------------------------------------
(* Claims about scan() *)

\* what the tasks of this scan are: the submitted ones and the three globals
ScanTasks ==
    {futures[i] : i \in 1..Len(futures)}
    \cup {Task(GlobalMethods[i], "global") : i \in 1..Len(GlobalMethods)}

\* the result list of a run that takes the tasks one by one in submit order
SequentialResources ==
    LET regional == Flatten([i \in 1..Len(futures) |->
                       RunScanner(futures[i], provider[futures[i]]).records])
        s3    == GlobalRun("S3Scanner.scan_buckets")
        users == GlobalRun("IAMScanner.scan_users")
        roles == GlobalRun("IAMScanner.scan_roles")
    IN  regional \o s3.records \o users.records
        \o (IF users.raised THEN <<>> ELSE roles.records)

\* C1: scan() returns a ScanResult whatever subset of tasks fails, and the
\* records of every task that did not fail are all in ScanResult.resources.
C1_SurvivorsAllPresent ==
    phase = "DONE" =>
        /\ scan_result.returned
        /\ \A t \in ScanTasks :
             provider[t] = Ok =>
               \A k \in 1..Len(RunScanner(t, Ok).records) :
                 Count(scan_result.resources, RunScanner(t, Ok).records[k]) >= 1

\* C7: summary.total_resources is the number of records and each of the
\* three frequency tables sums to it.
C7_SummaryTotals ==
    scan_result.returned =>
        /\ scan_result.summary.total_resources = Len(scan_result.resources)
        /\ SumFun(scan_result.summary.by_type) = scan_result.summary.total_resources
        /\ SumFun(scan_result.summary.by_region) = scan_result.summary.total_resources
        /\ SumFun(scan_result.summary.by_state) = scan_result.summary.total_resources

C7_Witness ==
    /\ scan_result.returned
    /\ Len(scan_result.resources) >= 3
    /\ Cardinality(DOMAIN scan_result.summary.by_type) >= 2
    /\ \E k \in DOMAIN scan_result.summary.by_state :
         scan_result.summary.by_state[k] >= 2

\* C8: for a fixed provider state and region set, whatever the pool size and
\* the completion order, the resources are the same multiset as those of the
\* one-by-one run, and summary and cost_summary are identical to its.
C8_PoolSizeIndependent ==
    scan_result.returned =>
        /\ SeqToBag(scan_result.resources) = SeqToBag(SequentialResources)
        /\ scan_result.summary = build_summary(SequentialResources)
        /\ scan_result.cost_summary = build_cost_summary(SequentialResources)

C8_Witness ==
    /\ scan_result.returned
    /\ max_workers >= 2
    /\ Len(scan_result.resources) >= 3
    /\ scan_result.resources # SequentialResources

\* C10: each region-scoped task either succeeded and had its records
\* appended exactly once, or failed and got exactly one scan_error entry
\* carrying its failure message.
C10_RecordsOrErrorEntry ==
    phase = "DONE" =>
        \A i \in 1..Len(futures) :
          LET t   == futures[i]
              ent == [type |-> "scan_error", message |-> FailureMessage(t)]
          IN  IF provider[t] = Ok
              THEN /\ \A k \in 1..Len(RunScanner(t, Ok).records) :
                        Count(scan_result.resources, RunScanner(t, Ok).records[k]) = 1
                   /\ Count(scan_result.errors, ent) = 0
              ELSE Count(scan_result.errors, ent) = 1

\* the error entries the scan in progress has appended itself
OwnErrors ==
    LET before == IF earlier = <<>> THEN 0
                  ELSE Len(earlier[Len(earlier)].errors)
    IN  SubSeq(errors, before + 1, Len(errors))

\* C21: when scan() is called more than once on one scanner, the errors of
\* each returned ScanResult hold the entries of that scan's failures only;
\* no entry an earlier scan recorded appears in a later result.
C21_ErrorsOfThisScanOnly ==
    scan_result.returned => scan_result.errors = OwnErrors

\* C22: a ScanResult, once returned, is never changed by a later operation
\* on the scanner: after any later scan() its resources, errors, summary
\* and cost_summary read as they did when it was returned.
C22_ReturnedResultUnchanged ==
    \A k \in 1..Len(earlier) : AsReadNow(earlier[k]) = earlier[k]

\* C23: for every list of resources with non-negative costs, absent costs
\* counting as zero, the per-kind costs, each rounded to 2 decimals, sum to
\* the total cost rounded to 2 decimals.
C23_RoundedKindsSumToRoundedTotal ==
    cost_call.returned =>
        SumFun(cost_call.summary.by_resource_type)
          = cost_call.summary.estimated_monthly_total

\* C25: each account-global scanner is isolated from the others: one that
\* raises is recorded as an error entry, and every other one still runs and
\* contributes its records; a failing users scan does not skip the roles
\* scan.
C25_GlobalScannersIsolated ==
    phase = "DONE" =>
        \A k \in 1..Len(GlobalMethods) :
          LET g   == GlobalMethods[k]
              out == GlobalRun(g)
          IN  /\ Count(invoked, g) = 1
              /\ out.raised =>
                   \E e \in 1..Len(scan_result.errors) :
                     scan_result.errors[e].message = out.message
              /\ ~out.raised =>
                   \A r \in 1..Len(out.records) :
                     Count(scan_result.resources, out.records[r]) >= 1

\* C26: no account-global scanner starts before every region-scoped task
\* has finished, and the global scanners run one after another in the
\* coordinating thread, never beside a region-scoped task.
C26_GlobalsAfterPoolDrains ==
    invoked # <<>> =>
        /\ \A i \in 1..Len(futures) : status[i] \in {"finished", "collected"}
        /\ Running = {}
        /\ \E n \in 1..Len(GlobalMethods) : invoked = SubSeq(GlobalMethods, 1, n)

C26_Witness ==
    /\ invoked = <<"S3Scanner.scan_buckets">>
    /\ max_workers >= 2
    /\ Len(futures) = Len(RegionalMethods)
    /\ \A i \in 1..Len(futures) : status[i] = "collected"

C28_AtMostMaxWorkersRunning ==
    Cardinality(Running) <= max_workers

C28_Witness ==
    /\ max_workers = DefaultMaxWorkers
    /\ Cardinality(Running) = DefaultMaxWorkers
    /\ \E i \in 1..Len(futures) : status[i] = "queued"

\* C29: no scan_* method raises to its caller: on every provider-call
\* failure, service error or malformed response, it returns the records it
\* built before the failure.
C29_ScannersNeverRaise ==
    /\ \A i \in 1..Len(futures) :
         status[i] \in {"finished", "collected"} =>
           ~RunScanner(futures[i], provider[futures[i]]).raised
    /\ \A k \in 1..Len(invoked) : ~GlobalRun(invoked[k]).raised

\* C30: a scan makes only read calls: every resource of the account is in
\* the same state after scan() as before, for every region set, pool size
\* and failure pattern.
C30_ScanLeavesAccountUnchanged ==
    /\ account = InitialAccount
    /\ \A m \in DOMAIN ScannerCalls : \A k \in 1..Len(ScannerCalls[m]) :
         ScannerCalls[m][k] \notin DOMAIN AfterMutation

C30_Witness ==
    /\ phase = "DONE"
    /\ Len(futures) = 8
    /\ invoked = GlobalMethods
    /\ scan_result.errors # <<>>
    /\ account = InitialAccount

\* the identity of a record: (resource_type, region, resource_id)
Triple(rec) == <<rec.resource_type, rec.region, rec.resource_id>>

\* C31: in every ScanResult no two records share the triple (resource_type,
\* region, resource_id), for every region listing the discovery call can
\* return, one with a repeated region code included, and every completion
\* order of the tasks.
C31_TriplesUnique ==
    scan_result.returned =>
        \A i, j \in 1..Len(scan_result.resources) :
          Triple(scan_result.resources[i]) = Triple(scan_result.resources[j])
            => i = j

\* the resource kinds of the account-global scanners
GlobalKinds == { ResourceType[GlobalMethods[g]] : g \in 1..Len(GlobalMethods) }

\* C32: in every ScanResult each record of a region-scoped kind has the
\* region of the task that produced it, a member of regions_scanned, and
\* each record of an account-global kind (bucket, user, role) has region
\* 'global'.
C32_RegionOfTaskOrGlobal ==
    scan_result.returned =>
        \A i \in 1..Len(scan_result.resources) :
          LET rec == scan_result.resources[i]
          IN  IF rec.resource_type \in GlobalKinds
              THEN rec.region = "global"
              ELSE \E r \in 1..Len(scan_result.regions_scanned) :
                     rec.region = scan_result.regions_scanned[r]

\* C38: every record a scan returns whose kind has an entry in the static
\* cost table carries a cost that is not absent, so that the cost summary is
\* non-zero whenever such resources exist.
C38_CostTableKindsCarryCost ==
    scan_result.returned =>
        \A i \in 1..Len(scan_result.resources) :
          scan_result.resources[i].resource_type \in COST_ESTIMATES
            => scan_result.resources[i].estimated_cost_monthly # None

\* the phase changes of a scan that runs to its return
PhaseSteps ==
    { <<"IDLE", "REGIONS_RESOLVED">>, <<"REGIONS_RESOLVED", "FANNED_OUT">>,
      <<"FANNED_OUT", "GLOBAL_IAM">>, <<"GLOBAL_IAM", "AGGREGATING">>,
      <<"AGGREGATING", "DONE">> }

\* C33: when every provider call returns or fails, every scan started with
\* max_workers >= 1 reaches DONE, passing through regions resolved, fanned
\* out, aggregation and done in that order: no task is submitted before the
\* regions are resolved and the summaries are computed only after the last
\* region-scoped and global scanner has finished.
C33_ReachesDoneInOrder ==
    /\ <>(phase = "DONE")
    /\ [][phase' # phase => <<phase, phase'>> \in PhaseSteps]_vars
    /\ [](futures # <<>> => phase \notin {"IDLE", "RAISED"})
    /\ [](scan_result.returned =>
            /\ \A i \in 1..Len(futures) : status[i] = "collected"
            /\ invoked # <<>>
            /\ phase = "DONE")

\* a step taken by a pool worker: it takes a queued task or ends a running one
WorkerStep ==
    \E i \in 1..Len(futures) :
      /\ i \in DOMAIN status'
      /\ \/ status[i] = "queued" /\ status'[i] = "running"
         \/ status[i] = "running" /\ status'[i] = "finished"

\* C37: during a scan the shared resources and errors collections are never
\* written by two threads at once: workers only return their own record
\* lists, and every append to resources and errors is made by the one
\* coordinating thread, for every pool size and interleaving.
C37_OnlyCoordinatorWrites ==
    [][(all_resources' # all_resources \/ errors' # errors) => ~WorkerStep]_vars

C37_Witness ==
    /\ max_workers >= 2
    /\ Cardinality(Running) >= 1
    /\ \E j \in 1..Len(futures) : status[j] = "collected"
    /\ all_resources # <<>>
    /\ errors # <<>>

----------------------------------------------------------------------------
(* Claims about the action executor *)

Mutations(calls) == {i \in 1..Len(calls) : calls[i].kind = "mutate"}
Reads(calls) == {i \in 1..Len(calls) : calls[i].kind = "read"}

\* the method a finished call ran, if any
MethodOf(l) ==
    IF l.entry = "execute_action"
    THEN IF <<l.resource_type, l.action>> \in DOMAIN action_map
         THEN action_map[<<l.resource_type, l.action>>] ELSE "none"
    ELSE l.entry

\* the states in which the pre-flight check of each method lets the action
\* through, after a read that answered
ValidStates ==
    ("stop_ec2_instance"  :> {"pending", "running"}) @@
    ("stop_rds_instance"  :> {"available"}) @@
    ("delete_nat_gateway" :> {"available"}) @@
    ("release_elastic_ip" :> {"unassociated"}) @@
    ("delete_ebs_volume"  :> {"available"}) @@
    ("delete_s3_bucket"   :> {"empty"})

\* the call made a validation read that answered and found the resource in
\* a state the check rejects
JudgedInvalid(l) ==
    /\ MethodOf(l) \in ExecutorMethods
    /\ Reads(l.calls) # {}
    /\ l.calls[CHOOSE i \in Reads(l.calls) : \A j \in Reads(l.calls) : i <= j].result = "ok"
    /\ l.found \notin ValidStates[MethodOf(l)]

\* C2: when the pre-flight validation judges the action invalid the executor
\* returns success=false, verification_status='failed' and makes no
\* mutating provider call.
C2_InvalidNeverMutates ==
    JudgedInvalid(last) =>
        /\ ~last.raised
        /\ last.outcome.success = FALSE
        /\ last.outcome.verification_status = "failed"
        /\ Mutations(last.calls) = {}

C2_Witness ==
    /\ JudgedInvalid(last)
    /\ last.entry = "execute_action"
    /\ last.resource_type = "EC2_Instance"
    /\ last.found = "stopped"
    /\ last.outcome.message = <<"Instance already stopped">>
    /\ last.outcome.verification_status = "failed"

\* C3: in every executor operation a mutating call is preceded by a
\* validation read of the resource that answered without error and found it
\* in a valid state; a failed validation read never leads to a mutation.
C3_MutationOnlyAfterGoodRead ==
    \A i \in Mutations(last.calls) :
        /\ \E j \in Reads(last.calls) : j < i /\ last.calls[j].result = "ok"
        /\ last.found \in ValidStates[MethodOf(last)]

\* C4: an unmapped (kind, action) pair gets success=false,
\* verification_status='failed', a message naming action and kind, and no
\* provider call of any sort.
C4_UnmappedNeverReachesProvider ==
    (last.entry = "execute_action"
       /\ <<last.resource_type, last.action>> \notin DOMAIN action_map) =>
        /\ ~last.raised
        /\ last.outcome.success = FALSE
        /\ last.outcome.verification_status = "failed"
        /\ \E i, j \in 1..Len(last.outcome.message) :
             /\ last.outcome.message[i] = last.action
             /\ last.outcome.message[j] = last.resource_type
        /\ last.calls = <<>>

C4_Witness ==
    /\ last.entry = "execute_action"
    /\ last.resource_type = "EC2_Instance"
    /\ last.action = "delete"
    /\ last.outcome.verification_status = "failed"

\* C5: execute_action returns a DeleteResult and lets no exception escape,
\* whichever provider call fails and with whatever exception type.
C5_ExecuteActionNeverRaises ==
    last.entry = "execute_action" =>
        /\ ~last.raised
        /\ last.outcome.verification_status \in {"verified", "failed"}

C5_Witness ==
    /\ last.entry = "execute_action"
    /\ \E i \in 1..Len(last.calls) : last.calls[i].result = "Exception"
    /\ last.outcome.message = <<"Unexpected error during action execution">>

\* the call made a validation read that answered and found the resource in
\* a state the check lets through
ValidationPassed(l) ==
    /\ MethodOf(l) \in ExecutorMethods
    /\ Reads(l.calls) # {}
    /\ l.calls[CHOOSE i \in Reads(l.calls) : \A j \in Reads(l.calls) : i <= j].result = "ok"
    /\ l.found \in ValidStates[MethodOf(l)]

\* C15: when validation succeeds and the provider's mutating call then
\* fails, the outcome has success=false, verification_status='failed' and
\* the provider's error text in `error`, and nothing is raised: the handler
\* catches ClientError, execute_action every other exception.
C15_FailedMutationReported ==
    \A i \in Mutations(last.calls) :
        ( /\ ValidationPassed(last)
          /\ last.calls[i].result # "ok"
          /\ (last.entry = "execute_action" \/ last.calls[i].result = "ClientError") )
        => /\ ~last.raised
           /\ last.outcome.success = FALSE
           /\ last.outcome.verification_status = "failed"
           /\ last.outcome.error = ErrorText(last.calls[i].result, last.calls[i].api)

C15_Witness ==
    /\ last.entry = "execute_action"
    /\ last.resource_type = "NAT_Gateway"
    /\ ValidationPassed(last)
    /\ \E i \in Mutations(last.calls) : last.calls[i].result = "ClientError"
    /\ last.outcome.error = ErrorText("ClientError", "delete_nat_gateway")

\* C16: whenever validation succeeds and the provider's mutating call
\* answers without error, the outcome has success=true and
\* verification_status='verified', whatever the confirming re-read does.
C16_VerifiedAfterMutation ==
    ( /\ ValidationPassed(last)
      /\ \E i \in Mutations(last.calls) : last.calls[i].result = "ok" )
    => /\ ~last.raised
       /\ last.outcome.success = TRUE
       /\ last.outcome.verification_status = "verified"

\* C24: for every mapped pair, delete of a volume and of a bucket included,
\* when the pre-flight check rejects the action the outcome's message and
\* its error field both equal the reason the check gave.
C24_RejectionReasonInMessageAndError ==
    JudgedInvalid(last) =>
        /\ ~last.raised
        /\ last.outcome.message # <<>>
        /\ last.outcome.error = last.outcome.message

\* C35: for every pair of the dispatch table, (S3_Bucket, delete) included,
\* execute_action on a resource that passes its pre-flight check, with a
\* provider that accepts every call, issues the mutating call exactly once
\* and returns success=true with verification_status='verified'.
C35_AcceptedMutationVerified ==
    ( /\ last.entry = "execute_action"
      /\ MethodOf(last) \in ExecutorMethods
      /\ last.found \in ValidStates[MethodOf(last)]
      /\ \A c \in 1..Len(last.calls) : last.calls[c].result = "ok" )
    => /\ Cardinality(Mutations(last.calls)) = 1
       /\ ~last.raised
       /\ last.outcome.success = TRUE
       /\ last.outcome.verification_status = "verified"

\* C39: every outcome the executor produces, on every path, has
\* verification_status 'verified' or 'failed', never 'pending', and
\* success=true exactly when the status is 'verified'.
C39_StatusMatchesSuccess ==
    (last.entry \in ExecutorMethods \cup {"execute_action"} /\ ~last.raised) =>
        /\ last.outcome.verification_status \in {"verified", "failed"}
        /\ last.outcome.success <=> last.outcome.verification_status = "verified"

C39_Witness ==
    /\ last.entry = "delete_s3_bucket"
    /\ ~last.raised
    /\ Mutations(last.calls) # {}
    /\ last.outcome.success
    /\ last.outcome.verification_status = "verified"

----------------------------------------------------------------------------
(* Claims about the validators *)

\* the validator just called got an answer to its read
Answered(v) == v.name # "none" /\ v.read = "ok" /\ ~v.raised

\* C17: for a resource that exists, validate_ec2_stop says valid exactly
\* when the instance state is none of stopped, stopping, terminated,
\* terminating, and validate_nat_gateway_delete exactly when the gateway
\* state is neither deleted nor deleting; a resource that is not found is
\* invalid.
C17_ValidExactlyOutsideRejectedStates ==
    /\ (Answered(validation) /\ validation.name = "validate_ec2_stop")
       => validation.valid =
            (validation.found \notin
               {"stopped", "stopping", "terminated", "terminating", "missing"})
    /\ (Answered(validation) /\ validation.name = "validate_nat_gateway_delete")
       => validation.valid =
            (validation.found \notin {"deleted", "deleting", "missing"})
    /\ (Answered(validation) /\ validation.found = "missing")
       => ~validation.valid

C17_Witness ==
    /\ Answered(validation)
    /\ validation.name = "validate_nat_gateway_delete"
    /\ validation.found = "deleting"
    /\ ~validation.valid
    /\ validation.reason = <<"NAT Gateway is already deleting">>

\* C18: for an Elastic IP that has an association,
\* validate_elastic_ip_release says valid=false and the result carries the
\* associated instance's identifier; for one without it says valid=true.
C18_AssociatedAddressRejected ==
    (Answered(validation) /\ validation.name = "validate_elastic_ip_release")
    => /\ validation.found = "associated"
          => /\ ~validation.valid
             /\ validation.associated_instance = AssociatedInstance
       /\ validation.found = "unassociated" => validation.valid

C18_Witness ==
    /\ Answered(validation)
    /\ validation.name = "validate_elastic_ip_release"
    /\ validation.found = "associated"
    /\ validation.associated_instance = AssociatedInstance

\* C19: every failure of a validator's provider read, of whatever exception
\* type, comes back as valid=false with a reason beginning 'API error:' and
\* is never raised to the validator's caller.
C19_ReadFailureNeverRaised ==
    (validation.name # "none" /\ validation.read # "ok")
    => /\ ~validation.raised
       /\ ~validation.valid
       /\ validation.reason # <<>>
       /\ Head(validation.reason) = "API error:"

\* C20: a validator issues only read calls and leaves the resource as it
\* found it, so validating the same resource twice in a row, the provider
\* answering both reads, gives the same verdict and the same reason.
C20_ValidationReadOnly ==
    validation.name # "none"
    => /\ Mutations(validation.calls) = {}
       /\ validation.after = validation.found
       /\ ( /\ validation.previous.name = validation.name
            /\ validation.previous.read = "ok"
            /\ Answered(validation) )
          => /\ validation.previous.found = validation.found
             /\ validation.previous.valid = validation.valid
             /\ validation.previous.reason = validation.reason

C20_Witness ==
    /\ Answered(validation)
    /\ validation.name = "validate_ec2_stop"
    /\ validation.previous.name = "validate_ec2_stop"
    /\ validation.previous.read = "ok"
    /\ validation.found = "running"
    /\ validation.valid
    /\ validation.previous.valid

----------------------------------------------------------------------------
(* Claims about the bulk operation *)

WellFormed(e) ==
    /\ e.shape = "object"
    /\ e.resource_id # NoId
    /\ Upper[Lower[GetAction(e)]] \in DOMAIN ActionTypeByName

\* the rows execute_action can produce for entry e executed by itself
AloneRows(e) ==
    { LET r == execute_action(e.resource_type, e.resource_id,
                              ActionTypeByName[Upper[Lower[GetAction(e)]]], st, f)
      IN  ResultRow(r.outcome.resource_id, r.outcome.success, r.outcome.message) :
      st \in KindStates["EC2_Instance"], f \in FaultPlans }

\* C6: a bulk request with credentials and a non-empty actions list, malformed
\* entries included, answers with exactly one outcome per entry in input
\* order, each well-formed entry's outcome being one it has when executed
\* alone, and successful + failed equal to the number of entries.
C6_OneOutcomePerEntry ==
    (bulk_pc = "done" /\ bulk_request.credentials /\ bulk_request.actions # <<>>)
    => LET entries == bulk_request.actions
           rows    == bulk_response.results
       IN  /\ Len(rows) = Len(entries)
           /\ \A i \in 1..Len(entries) :
                /\ i <= Len(rows)
                /\ rows[i].resource_id = entries[i].resource_id
                /\ WellFormed(entries[i]) => rows[i] \in AloneRows(entries[i])
           /\ bulk_response.successful + bulk_response.failed = Len(entries)

\* C34: a bulk action processes its entries strictly one after another in
\* input order: the validation read and the mutating call of entry i+1 begin
\* only after the outcome of entry i is recorded, so at most one destructive
\* provider call is in flight at any time.
C34_EntriesOneAfterAnother ==
    /\ \A i \in 1..Len(bulk_results) :
         bulk_results[i].resource_id = bulk_request.actions[i].resource_id
    /\ \A k, l \in 1..Len(bulk_calls) :
         k < l => bulk_calls[k].entry <= bulk_calls[l].entry
    /\ \A k \in 1..Len(bulk_calls) : bulk_calls[k].entry <= Len(bulk_results)
    /\ \A i \in 1..Len(bulk_request.actions) :
         Cardinality({k \in 1..Len(bulk_calls) :
                        bulk_calls[k].entry = i /\ bulk_calls[k].kind = "mutate"}) <= 1

C34_Witness ==
    /\ Len(bulk_results) = 2
    /\ \E k, l \in 1..Len(bulk_calls) :
         /\ bulk_calls[k].entry = 1 /\ bulk_calls[k].kind = "mutate"
         /\ bulk_calls[l].entry = 2 /\ bulk_calls[l].kind = "read"

\* C36: on every exit path of a request that constructed a session (normal
\* completion, invalid max_workers, an exception from the scan or from an
\* action entry) cleanup() has been invoked before the request returns, so
\* the credentials are no longer held.
C36_SessionCleanedOnEveryExit ==
    bulk_pc = "done" => bulk_session # "open"

----------------------------------------------------------------------------
(* Claims about the client cache *)

HandlesFor(key) == {h \in 1..Len(made) : made[h] = key}

\* C9: under every interleaving of concurrent get_client calls at most one
\* client handle is ever constructed per cache key, and every call for the
\* key returns that handle.
C9_OneHandlePerKey ==
    /\ \A h1, h2 \in 1..Len(made) : made[h1] = made[h2] => h1 = h2
    /\ \A p \in returned : HandlesFor(p[1]) = {p[2]}

C9_Witness ==
    /\ Len(made) >= 1
    /\ \E p \in returned :
         /\ HandlesFor(p[1]) = {p[2]}
         /\ \A t \in Threads : tleft[t] < MaxCalls
         /\ \E t \in Threads : tpc[t] = "return" /\ tkey[t] = p[1]

\* C40: once cleanup() has returned the client cache of the session manager
\* stays empty and no client handle is created from the cleared credentials,
\* for every interleaving of cleanup() with concurrent get_client calls, a
\* call that had passed the cache-miss check when cleanup ran included.
C40_CacheEmptyAfterCleanup ==
    cleanup_pc = "returned" => DOMAIN clients = {}

----------------------------------------------------------------------------
(* Claims about the session manager *)

DiscoveryOf(call) == call.args[1]

\* C11: get_regions never raises, and whenever the region-discovery call
\* fails, with a service error, a connection failure or a malformed
\* response, it returns the hardcoded list of eight regions.
C11_GetRegionsNeverRaises ==
    (sm_last.op = "get_regions" /\ sm.session # Cleared)
    => /\ ~sm_last.raised
       /\ DiscoveryOf(sm_last).fail # "ok" => sm_last.value = FallbackRegions

\* C12: every scan ends with a ScanResult whose regions_scanned is not
\* empty; when discovery yields no region, by failing or by an empty
\* listing, regions_scanned is the hardcoded fallback list.
C12_RegionsScannedNonEmpty ==
    phase \in {"DONE", "RAISED"}
    => /\ scan_result.returned
       /\ scan_result.regions_scanned # <<>>
       /\ (discovery.fail # "ok" \/ discovery.listing = <<>>)
            => scan_result.regions_scanned = FallbackRegions

\* C13: once cleanup() has returned, the client cache is empty and the two
\* credential fields and the session are cleared; a further cleanup() does
\* not raise and leaves the object exactly as it is.
C13_CleanupClearsAndIsIdempotent ==
    sm_last.op = "cleanup"
    => /\ ~sm_last.raised
       /\ DOMAIN sm.clients = {}
       /\ sm.access_key = Cleared
       /\ sm.secret_key = Cleared
       /\ sm.session = Cleared
       /\ cleanup(sm) = sm

C13_Witness ==
    /\ sm_last.op = "cleanup"
    /\ sm_last.again
    /\ DOMAIN sm.clients = {}
    /\ sm.access_key = Cleared

\* C14: constructing the session manager with an empty access key or an
\* empty secret key raises the credential error before any session or
\* client is created; with both non-empty the credential check passes.
C14_EmptyCredentialRejected ==
    sm_last.op = "__init__"
    => LET ak == sm_last.args[1]
           sk == sm_last.args[2]
       IN  IF ak = "" \/ sk = ""
           THEN /\ sm_last.raised
                /\ sm_last.exc = <<"ValueError", "AWS credentials cannot be empty">>
                /\ sm_last.sessions = 0
                /\ sm.session = Cleared
                /\ DOMAIN sm.clients = {}
                /\ sm.alive = "rejected"
           ELSE sm_last.exc # <<"ValueError", "AWS credentials cannot be empty">>

C14_Witness ==
    /\ sm_last.op = "__init__"
    /\ sm_last.args = <<"AKIAEXAMPLE", "">>
    /\ sm_last.raised
    /\ sm_last.sessions = 0

====
